---------------------------- MODULE Spec2Model ----------------------------
(***************************************************************************)
(* Pointwise quadrature kernels of libCEED's examples:                     *)
(*   f_build_mass, f_apply_mass          (examples/ceed/ex1.okl)           *)
(*   SetupDiff3Rhs, Diff3                (OKL diffusion kernels, part_000) *)
(*   ICsDC, DC                           (navier-stokes/densitycurrent.h)  *)
(*   SWICs, SWExplicit, SWImplicit, SWJacobian (shallow-water.h)           *)
(*                                                                         *)
(* One invocation of a kernel is a loop over the Q quadrature points.  The *)
(* OKL loops are @tile'd, their iterations run concurrently; the C loops   *)
(* run in ascending order, which is one of the interleavings.  The model   *)
(* runs the per-point iterations in any interleaving, a step being a block *)
(* of loads from the output buffer or a block of stores to it.  Buffers    *)
(* are flat memories addressed base + i + c*Q; a pointer in[f] / out[f] of *)
(* the C kernels is the base address of field f, like an entry iOf7[f] /   *)
(* oOf7[f] of the OKL kernels.                                             *)
(*                                                                         *)
(* CeedScalar values are exact rationals <<n, d>> (d > 0, lowest terms),   *)
(* the non-finite doubles are <<1,0>> (+inf), <<-1,0>> (-inf) and <<0,0>>  *)
(* (NaN); rounding and signed zeros are not modelled.  Results of the      *)
(* transcendental functions and of M_PI are terms: sequences longer than 2 *)
(* that record the operation and its operands, equal only when built the   *)
(* same way.                                                               *)
(***************************************************************************)
EXTENDS Integers, Sequences, FiniteSets, TLC

(***************************************************************************)
(* Bounds of the model.                                                    *)
(***************************************************************************)
MaxQ == 2
MaxSeed == 1
MaxPad == 1
MaxDim == 11
MaxVal == 1
MaxOob == 1
MaxCoord == 3

----------------------------------------------------------------------------
(***************************************************************************)
(* CeedScalar arithmetic.                                                  *)
(***************************************************************************)
Abs(n) == IF n < 0 THEN -n ELSE n

Sign(n) == IF n < 0 THEN -1 ELSE IF n > 0 THEN 1 ELSE 0

RECURSIVE GCD(_, _)
GCD(a, b) == IF b = 0 THEN a ELSE GCD(b, a % b)

\* the double with value n/d; d = 0 gives +inf, -inf or NaN
Norm(n, d) ==
  IF d = 0 THEN <<Sign(n), 0>>
  ELSE LET g == GCD(Abs(n), Abs(d))
           s == IF d < 0 THEN -1 ELSE 1
       IN  <<(s * n) \div g, (s * d) \div g>>

R(n) == <<n, 1>>

NaN == <<0, 0>>

IsRat(a) == Len(a) = 2

IsFinite(a) == IsRat(a) => a[2] # 0

\* Terms: <<op, Len(a)>> \o a [\o b], with op 1 add, 2 sub, 3 mul, 4 div,
\* 5 sin, 6 cos, 7 exp, 8 sqrt, 9 pow, 10 M_PI.

Term1(op, a) == <<op, Len(a)>> \o a

Term2(op, a, b) == <<op, Len(a)>> \o a \o b

FAdd(a, b) ==
  IF a = NaN \/ b = NaN THEN NaN
  ELSE IF IsRat(a) /\ IsRat(b)
       THEN IF a[2] = 0 /\ b[2] = 0
            THEN (IF a[1] = b[1] THEN a ELSE NaN)
            ELSE Norm(a[1] * b[2] + b[1] * a[2], a[2] * b[2])
       ELSE Term2(1, a, b)

FNeg(a) == IF IsRat(a) THEN <<-a[1], a[2]>> ELSE Term2(2, R(0), a)

FSub(a, b) ==
  IF a = NaN \/ b = NaN THEN NaN
  ELSE IF IsRat(a) /\ IsRat(b) THEN FAdd(a, FNeg(b))
       ELSE Term2(2, a, b)

FMul(a, b) ==
  IF a = NaN \/ b = NaN THEN NaN
  ELSE IF IsRat(a) /\ IsRat(b) THEN Norm(a[1] * b[1], a[2] * b[2])
       ELSE Term2(3, a, b)

FDiv(a, b) ==
  IF a = NaN \/ b = NaN THEN NaN
  ELSE IF IsRat(a) /\ IsRat(b)
       THEN Norm(a[1] * (IF b[1] < 0 THEN -b[2] ELSE b[2]), a[2] * Abs(b[1]))
       ELSE Term2(4, a, b)

\* a < b and a <= b on the rationals (false when either is NaN)
FLess(a, b) ==
  /\ a # NaN /\ b # NaN
  /\ IF a[2] = 0 \/ b[2] = 0
     THEN (IF a[2] = 0 /\ b[2] = 0 THEN a[1] < b[1]
           ELSE IF a[2] = 0 THEN a[1] < 0 ELSE b[1] > 0)
     ELSE a[1] * b[2] < b[1] * a[2]

FLeq(a, b) == a # NaN /\ b # NaN /\ ~FLess(b, a)

FAbs(a) == <<Abs(a[1]), a[2]>>

M_PI == <<10, 0, 0>>

sin(a) == IF a = NaN THEN NaN ELSE IF a = R(0) THEN R(0) ELSE Term1(5, a)

cos(a) == IF a = NaN THEN NaN ELSE IF a = R(0) THEN R(1) ELSE Term1(6, a)

exp(a) == IF a = NaN THEN NaN ELSE IF a = R(0) THEN R(1) ELSE Term1(7, a)

Sqr(a) == FMul(a, a)

Sum3(a, b, c) == FAdd(FAdd(a, b), c)

IsSquare(n) == \E r \in 0..n : r * r = n

ISqrt(n) == CHOOSE r \in 0..n : r * r = n

\* exact on the squares of rationals, a term otherwise
sqrt(a) ==
  IF a = NaN THEN NaN
  ELSE IF ~IsRat(a) THEN Term1(8, a)
  ELSE IF a[1] < 0 THEN NaN
  ELSE IF a[2] = 0 THEN a
  ELSE IF IsSquare(a[1]) /\ IsSquare(a[2]) THEN <<ISqrt(a[1]), ISqrt(a[2])>>
  ELSE Term1(8, a)

pow(a, b) ==
  IF a = NaN \/ b = NaN THEN NaN
  ELSE IF b = R(0) \/ a = R(1) THEN R(1)
  ELSE IF b = R(1) THEN a
  ELSE IF b = R(2) /\ IsRat(a) THEN Sqr(a)
  ELSE Term2(9, a, b)

\* r <= rc for r = sqrt(s): r itself when it is rational, and otherwise
\* 0 <= rc and s <= rc*rc
SqrtLeq(s, rc) ==
  IF IsRat(sqrt(s)) THEN FLeq(sqrt(s), rc)
  ELSE FLeq(R(0), rc) /\ FLeq(s, Sqr(rc))

\* fabs(a) < tol, tol = 1.e-14: of the rationals <<n, d>> with d < 10^14,
\* which are all that the model's integers hold, only 0 is below tol
FabsLessTol(a) == IsRat(a) /\ a[2] # 0 /\ a[1] = 0

----------------------------------------------------------------------------
(***************************************************************************)
(* State of one kernel invocation and of its caller.                       *)
(***************************************************************************)
VARIABLES
  kernel,   \* the kernel invoked
  Q,        \* number of quadrature points
  ctx,      \* the context block
  iOf7,     \* input offset table (OKL) / the in[] pointers (C), base addresses
  oOf7,     \* output offset table (OKL) / the out[] pointers (C)
  junk,     \* what an out-of-bounds read finds: off beyond the offset table,
            \* val beyond a field of a C array
  in,       \* the input buffer
  out,      \* the output buffer
  outB,     \* the output buffer of a second run of the same invocations that
            \* starts from other contents
  pc,       \* pc[i]: the next step of the iteration of point i
  tmp,      \* tmp[i]: the values iteration i last loaded from out
  tmpB,     \* the same for the second run
  uninit,   \* uninit[i]: what iteration i finds in an uninitialized local
  call,     \* 1 in the first invocation, 2 in the re-invocation
  done,     \* the invocation has returned
  ret,      \* the status returned (-1 before the first return)
  first,    \* the output buffer as the first invocation left it
  acc,      \* acc[i]: the buffer accesses of iteration i in this invocation,
            \* <<"r" or "w", "in" or "out", field, component, address>>
  br,       \* br[i]: the determinant branches iteration i of f_build_mass took
  loc,      \* loc[i]: the locals of iteration i of DC and of the shallow-water
            \* kernels, once it has computed them
  cacc      \* the positions of the context block read in this invocation

vars == <<kernel, Q, ctx, iOf7, oOf7, junk, in, out, outB, pc, tmp, tmpB,
          uninit, call, done, ret, first, acc, br, loc, cacc>>

Kernels == {"f_build_mass", "f_apply_mass", "SetupDiff3Rhs", "Diff3",
            "ICsDC", "DC", "SWICs", "SWExplicit", "SWImplicit", "SWJacobian"}

\* component counts of the input fields and of the output fields
NIn(k) ==
  CASE k = "f_build_mass"  -> <<9, 1>>
    [] k = "f_apply_mass"  -> <<1, 1>>
    [] k = "SetupDiff3Rhs" -> <<3, 9, 1>>
    [] k = "Diff3"         -> <<9, 6>>
    [] k = "ICsDC"         -> <<3>>
    [] k = "DC"            -> <<5, 15, 10, 3>>
    [] k = "SWICs"         -> <<2>>
    [] k = "SWExplicit"    -> <<3, 6, 5, 2>>
    [] k = "SWImplicit"    -> <<3, 6, 5, 2, 1, 1>>
    [] k = "SWJacobian"    -> <<3, 6, 5>>

NOut(k) ==
  CASE k = "f_build_mass"  -> <<1>>
    [] k = "f_apply_mass"  -> <<1>>
    [] k = "SetupDiff3Rhs" -> <<3, 3>>
    [] k = "Diff3"         -> <<9>>
    [] k = "ICsDC"         -> <<5, 3>>
    [] k = "DC"            -> <<5, 15>>
    [] k = "SWICs"         -> <<3, 1, 1, 2>>
    [] k = "SWExplicit"    -> <<3, 6>>
    [] k = "SWImplicit"    -> <<3, 6>>
    [] k = "SWJacobian"    -> <<3, 6>>

----------------------------------------------------------------------------
(***************************************************************************)
(* Field buffer addressing.                                                *)
(***************************************************************************)
\* seeded fault: the component stride Q is dropped
AddrUnitStride(base, i, c, q) == base + i + c

\* array[offset[field] + i + c*Q]
Addr(base, i, c, q) == base + i + c * q

\* iOf7[f], in[f]
ITab(f) == iOf7[f + 1]

\* oOf7[f], out[f]; a position past the end of the table holds junk.off
OTab(f) == IF f < Len(oOf7) THEN oOf7[f + 1] ELSE junk.off

\* component c of input field f at point i; a component past the end of the
\* field's array holds junk.val
In(f, c, i) ==
  IF c < NIn(kernel)[f + 1] THEN in[Addr(ITab(f), i, c, Q)] ELSE junk.val

\* context[n]
Ctx(n) == ctx[n + 1]

\* the value at address a of output memory mem
Peek(mem, a) == IF a \in DOMAIN mem THEN mem[a] ELSE junk.val

SetMax(S) == CHOOSE x \in S : \A y \in S : y <= x

\* seeded fault: the assignments go to the input array
StoreArrayIn == "in"

\* the array on the left of every assignment of the kernels: out (or v, or a
\* field pointer out[f]); in, iOf7, oOf7 and ctx are only read
StoreArray == "out"

\* mem after the stores S = << <<field, component, value>>, ... >> of point i,
\* done in order
ApplyStores(mem, i, S) ==
  [a \in DOMAIN mem |->
     LET hits == {n \in 1..Len(S) : Addr(OTab(S[n][1]), i, S[n][2], Q) = a}
     IN  IF hits = {} THEN mem[a] ELSE S[SetMax(hits)][3]]

----------------------------------------------------------------------------
(***************************************************************************)
(* f_build_mass: ctx is an int array (dim, space_dim).                     *)
(***************************************************************************)
\* seeded fault: the factor 10 on the other operand
BuildMassDimsSwapped == Ctx(0) * 10 + Ctx(1)

\* const CeedInt dims = dim + 10*space_dim;
BuildMassDims == Ctx(0) + 10 * Ctx(1)

\* u[iOf7[0]+i] * u[iOf7[1]+i]
Det11(i) == FMul(In(0, 0, i), In(1, 0, i))

Det22(i) ==
  FMul(FSub(FMul(In(0, 0, i), In(0, 3, i)), FMul(In(0, 1, i), In(0, 2, i))),
       In(1, 0, i))

\* seeded fault: the middle cofactor enters with the wrong sign
Det33PlusMiddle(i) ==
  FMul(FAdd(FAdd(FMul(In(0, 0, i),
                      FSub(FMul(In(0, 4, i), In(0, 8, i)),
                           FMul(In(0, 5, i), In(0, 7, i)))),
                 FMul(In(0, 1, i),
                      FSub(FMul(In(0, 3, i), In(0, 8, i)),
                           FMul(In(0, 5, i), In(0, 6, i))))),
            FMul(In(0, 2, i),
                 FSub(FMul(In(0, 3, i), In(0, 7, i)),
                      FMul(In(0, 4, i), In(0, 6, i))))),
       In(1, 0, i))

Det33(i) ==
  FMul(FAdd(FSub(FMul(In(0, 0, i),
                      FSub(FMul(In(0, 4, i), In(0, 8, i)),
                           FMul(In(0, 5, i), In(0, 7, i)))),
                 FMul(In(0, 1, i),
                      FSub(FMul(In(0, 3, i), In(0, 8, i)),
                           FMul(In(0, 5, i), In(0, 6, i))))),
            FMul(In(0, 2, i),
                 FSub(FMul(In(0, 3, i), In(0, 7, i)),
                      FMul(In(0, 4, i), In(0, 6, i))))),
       In(1, 0, i))

\* seeded fault: the last test replaced by a default branch
BuildMassBranchesDefault(dims) ==
  IF dims = 11 THEN <<11>> ELSE IF dims = 22 THEN <<22>> ELSE <<33>>

\* the branches taken: the three ifs are tested one after the other
BuildMassBranches(dims) ==
  (IF dims = 11 THEN <<11>> ELSE <<>>) \o
  (IF dims = 22 THEN <<22>> ELSE <<>>) \o
  (IF dims = 33 THEN <<33>> ELSE <<>>)

\* seeded fault: the 3x3 branch stores the 2x2 determinant
BuildMassValue22(b, i) ==
  CASE b = 11 -> Det11(i) [] b = 22 -> Det22(i) [] b = 33 -> Det22(i)

BuildMassValue(b, i) ==
  CASE b = 11 -> Det11(i) [] b = 22 -> Det22(i) [] b = 33 -> Det33(i)

BuildMassStores(i) ==
  LET B == BuildMassBranches(BuildMassDims)
  IN  [n \in 1..Len(B) |-> <<0, 0, BuildMassValue(B[n], i)>>]

BuildMassReads ==
  LET B == BuildMassBranches(BuildMassDims)
      JC(b) == CASE b = 11 -> {0} [] b = 22 -> 0..3 [] b = 33 -> 0..8
  IN  UNION {{<<0, c>> : c \in JC(B[n])} \cup {<<1, 0>>} : n \in 1..Len(B)}

(***************************************************************************)
(* f_apply_mass                                                            *)
(***************************************************************************)
\* seeded fault: a sum in place of the product
ApplyMassValueSum(i) == FAdd(In(1, 0, i), In(0, 0, i))

\* out[oOf7[0]+i] = in[iOf7[1]+i] * in[iOf7[0]+i];
ApplyMassValue(i) == FMul(In(1, 0, i), In(0, 0, i))

ApplyMassStores(i) == << <<0, 0, ApplyMassValue(i)>> >>

(***************************************************************************)
(* SetupDiff3Rhs                                                           *)
(***************************************************************************)
\* sin(M_PI*(c[0] + k[0]*x)) * sin(M_PI*(c[1] + k[1]*y)) * sin(M_PI*(c[2] + k[2]*z))
TripleSine(i) ==
  FMul(FMul(sin(FMul(M_PI, FAdd(R(0), FMul(R(1), In(0, 0, i))))),
            sin(FMul(M_PI, FAdd(R(1), FMul(R(2), In(0, 1, i)))))),
       sin(FMul(M_PI, FAdd(R(2), FMul(R(3), In(0, 2, i))))))

\* rho of a Jacobian block J, J[c] its component slot c, and the weight w:
\* J11, J21, J31 are slots 0, 1, 2, J12, J22, J32 slots 3, 4, 5 and J13,
\* J23, J33 slots 6, 7, 8; A11, A12, A13 are the cofactors of the first row
Diff3RhoOf(J, w) ==
  LET A11 == FSub(FMul(J[4], J[8]), FMul(J[7], J[5]))
      A12 == FSub(FMul(J[6], J[5]), FMul(J[3], J[8]))
      A13 == FSub(FMul(J[3], J[7]), FMul(J[6], J[4]))
  IN  FMul(w, FAdd(FAdd(FMul(J[0], A11), FMul(J[1], A12)), FMul(J[2], A13)))

\* seeded fault: the quadrature weight is left out of rho
Diff3RhoNoWeight(i) ==
  LET J11 == In(1, 0, i)   J21 == In(1, 1, i)   J31 == In(1, 2, i)
      J12 == In(1, 3, i)   J22 == In(1, 4, i)   J32 == In(1, 5, i)
      J13 == In(1, 6, i)   J23 == In(1, 7, i)   J33 == In(1, 8, i)
      A11 == FSub(FMul(J22, J33), FMul(J23, J32))
      A12 == FSub(FMul(J13, J32), FMul(J12, J33))
      A13 == FSub(FMul(J12, J23), FMul(J13, J22))
  IN  FAdd(FAdd(FMul(J11, A11), FMul(J21, A12)), FMul(J31, A13))

\* rho = w * (J11*A11 + J21*A12 + J31*A13)
Diff3Rho(i) == Diff3RhoOf([c \in 0..8 |-> In(1, c, i)], In(2, 0, i))

\* rho * M_PI*M_PI * (k[0]*k[0] + k[1]*k[1] + k[2]*k[2]) * sin * sin * sin
Diff3Source(i) ==
  LET kk == FAdd(FAdd(FMul(R(1), R(1)), FMul(R(2), R(2))), FMul(R(3), R(3)))
  IN  FMul(FMul(FMul(FMul(FMul(FMul(Diff3Rho(i), M_PI), M_PI), kk),
                     sin(FMul(M_PI, FAdd(R(0), FMul(R(1), In(0, 0, i)))))),
                sin(FMul(M_PI, FAdd(R(1), FMul(R(2), In(0, 1, i)))))),
           sin(FMul(M_PI, FAdd(R(2), FMul(R(3), In(0, 2, i))))))

\* The statements of one iteration, a load of out[] before the store that
\* uses it:
\*   0  out[oOf7[0]+i+0*Q] = sin*sin*sin
\*   1  load out[oOf7[1]+i+0*Q]       2  out[oOf7[0]+i+1*Q] = it
\*   3  load out[oOf7[1]+i+0*Q]       4  out[oOf7[0]+i+2*Q] = it;
\*                                       out[oOf7[1]+i+0*Q] = rho*...
\*   5  load out[oOf7[2]+i+0*Q]       6  out[oOf7[1]+i+1*Q] = it
\*   7  load out[oOf7[2]+i+0*Q]       8  out[oOf7[1]+i+2*Q] = it
SetupDiff3RhsLoads(p) ==
  CASE p \in {1, 3} -> << <<1, 0>> >>
    [] p \in {5, 7} -> << <<2, 0>> >>
    [] OTHER        -> <<>>

SetupDiff3RhsStores(p, i, T) ==
  CASE p = 0 -> << <<0, 0, TripleSine(i)>> >>
    [] p = 2 -> << <<0, 1, T[1]>> >>
    [] p = 4 -> << <<0, 2, T[1]>>, <<1, 0, Diff3Source(i)>> >>
    [] p = 6 -> << <<1, 1, T[1]>> >>
    [] p = 8 -> << <<1, 2, T[1]>> >>
    [] OTHER -> <<>>

SetupDiff3RhsReads(p) ==
  CASE p = 0 -> {<<0, c>> : c \in 0..2} \cup {<<1, c>> : c \in 0..8}
    [] p = 4 -> {<<0, c>> : c \in 0..2} \cup {<<2, 0>>}
    [] OTHER -> {}

(***************************************************************************)
(* Diff3                                                                   *)
(***************************************************************************)
\* packed symmetric metric: rows of slots used for output direction d
Diff3Slots(d) == CASE d = 0 -> <<0, 1, 2>> [] d = 1 -> <<1, 3, 4>> [] d = 2 -> <<2, 4, 5>>

\* out[oOf7[0]+i+Q*(c+d*3)] = in[iOf7[1]+i+Q*s0]*ugc0 + in[..s1]*ugc1 + in[..s2]*ugc2
Diff3Value(c, d, i) ==
  LET s == Diff3Slots(d)
  IN  FAdd(FAdd(FMul(In(1, s[1], i), In(0, c + 0 * 3, i)),
                FMul(In(1, s[2], i), In(0, c + 1 * 3, i))),
           FMul(In(1, s[3], i), In(0, c + 2 * 3, i)))

Diff3Stores(i) ==
  [n \in 1..9 |-> LET c == (n - 1) \div 3   d == (n - 1) % 3
                  IN  <<0, c + d * 3, Diff3Value(c, d, i)>>]

Diff3Reads == {<<0, c>> : c \in 0..8} \cup {<<1, c>> : c \in 0..5}

(***************************************************************************)
(* SWICs                                                                   *)
(***************************************************************************)
SWICsStores(i) ==
  LET x == In(0, 0, i)
      y == In(0, 1, i)
  IN  << <<0, 0, Ctx(0)>>, <<0, 1, Ctx(1)>>, <<0, 2, Ctx(2)>>,
         <<1, 0, FAdd(sin(x), cos(y))>>,
         <<2, 0, R(0)>>,
         <<3, 0, x>>, <<3, 1, y>> >>

SWICsReads == {<<0, 0>>, <<0, 1>>}

(***************************************************************************)
(* SWExplicit, SWImplicit, SWJacobian                                      *)
(***************************************************************************)
\* dq[i+(c+4*d)*Q]: the gradient of state component c in direction d
SWGradSlot(c, d) == c + 4 * d

\* The stride of the gradient input applied to the gradient test output.
SWTestSlotStride4(c, d) == c + 4 * d

\* dv[i+(c+3*d)*Q]
SWTestSlot(c, d) == c + 3 * d

SWdu(c, d, i) == In(1, SWGradSlot(c, d), i)

SWdh(d, i) == In(1, SWGradSlot(2, d), i)

\* const CeedScalar wJ = qdata[i+ 0*Q];
SWwJ(i) == In(2, 0, i)

\* const CeedScalar wBJ[4] = {qdata[i+ 1*Q], .., qdata[i+ 4*Q]};
SWwBJ(i) == <<In(2, 1, i), In(2, 2, i), In(2, 3, i), In(2, 4, i)>>

\* what all three kernels load from q and dq
SWStateReads ==
  {<<0, c>> : c \in 0..2} \cup
  {<<1, SWGradSlot(c, d)>> : c \in 0..2, d \in 0..1}

SWExplicitStores(i) ==
  LET u0 == In(0, 0, i)
      u1 == In(0, 1, i)
      f  == Ctx(0)
  IN  << <<1, SWTestSlot(0, 0), R(0)>>, <<1, SWTestSlot(0, 1), R(0)>>,
         <<1, SWTestSlot(1, 0), R(0)>>, <<1, SWTestSlot(1, 1), R(0)>>,
         <<0, 0, FNeg(FAdd(FAdd(FMul(u0, SWdu(0, 0, i)), FMul(u1, SWdu(0, 1, i))),
                           FMul(f, u1)))>>,
         <<0, 1, FNeg(FSub(FAdd(FMul(u0, SWdu(1, 0, i)), FMul(u1, SWdu(1, 1, i))),
                           FMul(f, u0)))>>,
         <<1, SWTestSlot(2, 0), R(0)>>, <<1, SWTestSlot(2, 1), R(0)>>,
         <<0, 2, R(0)>> >>

SWExplicitReads == SWStateReads \cup {<<2, c>> : c \in 0..4}

SWImplicitStores(i) ==
  LET u0  == In(0, 0, i)
      u1  == In(0, 1, i)
      h   == In(0, 2, i)
      wBJ == SWwBJ(i)
      h_s == In(4, 0, i)
      H_0 == In(5, 0, i)
      g   == Ctx(0)
  IN  << <<1, SWTestSlot(0, 0),
           FMul(FMul(FNeg(g), FAdd(h, h_s)), FAdd(wBJ[1], wBJ[2]))>>,
         <<1, SWTestSlot(0, 1), R(0)>>,
         <<1, SWTestSlot(1, 0), R(0)>>,
         <<1, SWTestSlot(1, 1),
           FMul(FMul(FNeg(g), FAdd(h, h_s)), FAdd(wBJ[3], wBJ[4]))>>,
         <<0, 0, R(0)>>, <<0, 1, R(0)>>,
         <<1, SWTestSlot(2, 0),
           FMul(FNeg(FAdd(h, H_0)), FAdd(FMul(u0, wBJ[1]), FMul(u1, wBJ[2])))>>,
         <<1, SWTestSlot(2, 1),
           FMul(FNeg(FAdd(h, H_0)), FAdd(FMul(u0, wBJ[3]), FMul(u1, wBJ[4])))>>,
         <<0, 2, R(0)>> >>

SWImplicitReads ==
  SWStateReads \cup {<<2, c>> : c \in 0..4} \cup {<<4, 0>>, <<5, 0>>}

SWJacobianStores(i) ==
  LET u0  == In(0, 0, i)
      u1  == In(0, 1, i)
      wBJ == SWwBJ(i)
      g   == Ctx(0)
  IN  << <<1, SWTestSlot(0, 0), FMul(FMul(FNeg(g), wBJ[1]), SWdh(0, i))>>,
         <<1, SWTestSlot(0, 1), R(0)>>,
         <<1, SWTestSlot(1, 0), R(0)>>,
         <<1, SWTestSlot(1, 1), FMul(FMul(FNeg(g), wBJ[4]), SWdh(1, i))>>,
         <<0, 0, R(0)>>, <<0, 1, R(0)>>,
         <<1, SWTestSlot(2, 0),
           FNeg(FAdd(FMul(SWdu(0, 0, i), wBJ[1]),
                     FMul(FMul(u0, SWdh(0, i)), wBJ[2])))>>,
         <<1, SWTestSlot(2, 1),
           FNeg(FAdd(FMul(SWdu(1, 1, i), wBJ[3]),
                     FMul(FMul(u1, SWdh(1, i)), wBJ[4])))>>,
         <<0, 2, R(0)>> >>

SWJacobianReads == SWStateReads \cup {<<2, c>> : c \in 1..4}

(***************************************************************************)
(* ICsDC                                                                   *)
(***************************************************************************)
\* !periodic[n] && (fabs(a - 0.0) < tol || fabs(a - l) < tol), a the
\* coordinate n of point i and l = context[9 + n]
ICsDCFace(n, i) ==
  /\ Ctx(12 + n) = R(0)
  /\ \/ FabsLessTol(FSub(In(0, n, i), R(0)))
     \/ FabsLessTol(FSub(In(0, n, i), Ctx(9 + n)))

\* seeded fault: the three flags read whatever the faces before say
ICsDCPeriodicReadsAll(i) == {12, 13, 14}

\* the periodic[] the test of the faces reads: || goes on to the next face
\* only when the faces before it are false
ICsDCPeriodicReads(i) ==
  {12} \cup (IF ICsDCFace(0, i) THEN {}
            ELSE {13} \cup (IF ICsDCFace(1, i) THEN {} ELSE {14}))

\* seeded fault: the boundary branch clears the energy instead of q0[3]
ICsDCBoundaryStoresEnergy == << <<0, 1, R(0)>>, <<0, 2, R(0)>>, <<0, 4, R(0)>> >>

\* q0[1][i] = 0.0; q0[2][i] = 0.0; q0[3][i] = 0.0; inside the if
ICsDCBoundaryStores == << <<0, 1, R(0)>>, <<0, 2, R(0)>>, <<0, 3, R(0)>> >>

ICsDCStores(i) ==
  LET theta0 == Ctx(0)   thetaC == Ctx(1)   P0 == Ctx(2)    N  == Ctx(3)
      cv     == Ctx(4)   cp     == Ctx(5)   Rd == Ctx(6)    g  == Ctx(7)
      rc     == Ctx(8)   lx     == Ctx(9)   ly == Ctx(10)   lz == Ctx(11)
      half   == <<1, 2>>
      center == <<FMul(half, lx), FMul(half, ly), FMul(half, lz)>>
      x == In(0, 0, i)
      y == In(0, 1, i)
      z == In(0, 2, i)
      r2 == Sum3(pow(FSub(x, center[1]), R(2)), pow(FSub(y, center[2]), R(2)),
                 pow(FSub(z, center[3]), R(2)))
      r  == sqrt(r2)
      deltatheta ==
        IF SqrtLeq(r2, rc)
        THEN FDiv(FMul(thetaC, FAdd(R(1), cos(FDiv(FMul(M_PI, r), rc)))), R(2))
        ELSE R(0)
      theta == FAdd(FMul(theta0, exp(FDiv(FMul(FMul(N, N), z), g))), deltatheta)
      Pi == FAdd(R(1),
                 FDiv(FMul(FMul(g, g),
                           FSub(exp(FDiv(FMul(FMul(FNeg(N), N), z), g)), R(1))),
                      FMul(FMul(FMul(cp, theta0), N), N)))
      rho == FDiv(FMul(P0, pow(Pi, FDiv(cv, Rd))), FMul(Rd, theta))
      boundary == ICsDCFace(0, i) \/ ICsDCFace(1, i) \/ ICsDCFace(2, i)
  IN  << <<0, 0, rho>>, <<0, 1, R(0)>>, <<0, 2, R(0)>>, <<0, 3, R(0)>>,
         <<0, 4, FMul(rho, FMul(FMul(cv, theta), Pi))>> >>
      \o (IF boundary THEN ICsDCBoundaryStores ELSE <<>>)
      \o << <<1, 0, x>>, <<1, 1, y>>, <<1, 2, z>> >>

ICsDCReads == {<<0, c>> : c \in 0..2}

(***************************************************************************)
(* DC.  The locals are tuples indexed from 1: u[j+1] is the code's u[j].   *)
(***************************************************************************)
\* dq[d][c][i] and dv[d][c][i]: (*dq)[5][Q]
DCSlot(d, c) == d * 5 + c

\* seeded fault: the inverse Jacobian taken column by column
DCQdataSlotByColumn(r, c) == 1 + r + 3 * c

\* dXdx[r][c] = qdata[1 + 3*r + c][i]
DCQdataSlot(r, c) == 1 + 3 * r + c

\* the context and what the iteration of point i loads from q, dq and qdata
DCState(i) ==
  [lambda |-> Ctx(0), mu |-> Ctx(1), k |-> Ctx(2), cv |-> Ctx(3),
   cp |-> Ctx(4), g |-> Ctx(5), Rd |-> Ctx(6),
   gamma |-> FDiv(Ctx(4), Ctx(3)),
   rho |-> In(0, 0, i),
   u |-> <<FDiv(In(0, 1, i), In(0, 0, i)), FDiv(In(0, 2, i), In(0, 0, i)),
           FDiv(In(0, 3, i), In(0, 0, i))>>,
   E |-> In(0, 4, i),
   drho |-> <<In(1, DCSlot(0, 0), i), In(1, DCSlot(1, 0), i), In(1, DCSlot(2, 0), i)>>,
   dU |-> << <<In(1, DCSlot(0, 1), i), In(1, DCSlot(1, 1), i), In(1, DCSlot(2, 1), i)>>,
             <<In(1, DCSlot(0, 2), i), In(1, DCSlot(1, 2), i), In(1, DCSlot(2, 2), i)>>,
             <<In(1, DCSlot(0, 3), i), In(1, DCSlot(1, 3), i), In(1, DCSlot(2, 3), i)>> >>,
   dE |-> <<In(1, DCSlot(0, 4), i), In(1, DCSlot(1, 4), i), In(1, DCSlot(2, 4), i)>>,
   wJ |-> In(2, 0, i),
   dXdx |-> [r \in 1..3 |->
               [c \in 1..3 |-> In(2, DCQdataSlot(r - 1, c - 1), i)]]]

\* du[j][k] = (dU[j][k] - drho[k]*u[j]) / rho
DCdu(s, j, kk) == FDiv(FSub(s.dU[j][kk], FMul(s.drho[kk], s.u[j])), s.rho)

\* du[j][l] as the l loop of pass (j, k) finds it: du[j][l] is assigned in
\* pass (j, l), so for l > k it is still uninitialized and holds g
DCduAt(s, g, j, kk, l) == IF l <= kk THEN DCdu(s, j, l) ELSE g

\* x = 0; for (l) x += a[l] * dXdx[l][j]
DCCol(a, dXdx, j) ==
  Sum3(FAdd(R(0), FMul(a[1], dXdx[1][j])), FMul(a[2], dXdx[2][j]),
       FMul(a[3], dXdx[3][j]))

\* dudx[j][k]
DCdudx(s, g, j, kk) ==
  DCCol(<<DCduAt(s, g, j, kk, 1), DCduAt(s, g, j, kk, 2), DCduAt(s, g, j, kk, 3)>>,
        s.dXdx, kk)

\* dXdxdXdxT[j][k]
DCgij(dXdx, j, kk) ==
  Sum3(FAdd(R(0), FMul(dXdx[j][1], dXdx[kk][1])), FMul(dXdx[j][2], dXdx[kk][2]),
       FMul(dXdx[j][3], dXdx[kk][3]))

\* the locals the j, k, l loops fill
DCGrad(s, g) ==
  [du |-> [j \in 1..3 |-> [kk \in 1..3 |-> DCdu(s, j, kk)]],
   drhodx |-> [j \in 1..3 |-> DCCol(s.drho, s.dXdx, j)],
   dEdx |-> [j \in 1..3 |-> DCCol(s.dE, s.dXdx, j)],
   dUdx |-> [j \in 1..3 |-> [kk \in 1..3 |-> DCCol(s.dU[j], s.dXdx, kk)]],
   dudx |-> [j \in 1..3 |-> [kk \in 1..3 |-> DCdudx(s, g, j, kk)]],
   dXdxdXdxT |-> [j \in 1..3 |-> [kk \in 1..3 |-> DCgij(s.dXdx, j, kk)]]]

\* gradT[k]
DCgradT(s, d, kk) ==
  FDiv(FSub(FSub(FDiv(d.dEdx[kk], s.rho),
                 FDiv(FMul(s.E, d.drhodx[kk]), FMul(s.rho, s.rho))),
            Sum3(FMul(s.u[1], d.dudx[1][kk]), FMul(s.u[2], d.dudx[2][kk]),
                 FMul(s.u[3], d.dudx[3][kk]))),
       s.cv)

\* mu*(dudx[a][a]*(2 + lambda) + lambda*(dudx[b][b] + dudx[c][c]))
DCFuDiag(s, d, a, b, c) ==
  FMul(s.mu, FAdd(FMul(d.dudx[a][a], FAdd(R(2), s.lambda)),
                  FMul(s.lambda, FAdd(d.dudx[b][b], d.dudx[c][c]))))

\* mu*(dudx[a][b] + dudx[b][a])
DCFuOff(s, d, a, b) == FMul(s.mu, FAdd(d.dudx[a][b], d.dudx[b][a]))

DCFu(s, d) ==
  <<DCFuDiag(s, d, 1, 2, 3), DCFuOff(s, d, 1, 2), DCFuOff(s, d, 1, 3),
    DCFuDiag(s, d, 2, 1, 3), DCFuOff(s, d, 2, 3), DCFuDiag(s, d, 3, 1, 2)>>

\* Fe[n]: u[0]*Fu[a] + u[1]*Fu[b] + u[2]*Fu[c] + k*gradT[n]
DCFe(s, Fu, gradT, n, a, b, c) ==
  FAdd(Sum3(FMul(s.u[1], Fu[a]), FMul(s.u[2], Fu[b]), FMul(s.u[3], Fu[c])),
       FMul(s.k, gradT[n]))

DCke(s) ==
  FDiv(Sum3(FMul(s.u[1], s.u[1]), FMul(s.u[2], s.u[2]), FMul(s.u[3], s.u[3])),
       R(2))

\* gradT, Fu, Fe, ke and P
DCFluxOf(s, gradT, Fu, ke) ==
  [gradT |-> gradT, Fu |-> Fu,
   Fe |-> <<DCFe(s, Fu, gradT, 1, 1, 2, 3), DCFe(s, Fu, gradT, 2, 2, 4, 5),
            DCFe(s, Fu, gradT, 3, 3, 5, 6)>>,
   ke |-> ke,
   P |-> FMul(FSub(s.E, FMul(ke, s.rho)), FSub(s.gamma, R(1)))]

DCFlux(s, d) ==
  DCFluxOf(s, [kk \in 1..3 |-> DCgradT(s, d, kk)], DCFu(s, d), DCke(s))

\* all the locals of the iteration of point i that the stores use
DCLocalsOf(s, d) == s @@ d @@ DCFlux(s, d)

DCLocals(i, g) == DCLocalsOf(DCState(i), DCGrad(DCState(i), g))

\* a*b*c and a*b*c*d, evaluated from the left
Mul3(a, b, c) == FMul(FMul(a, b), c)

Mul4(a, b, c, d) == FMul(FMul(FMul(a, b), c), d)

\* x followed by the signed terms ts = << <<1 or -1, value>>, ... >>, added
\* and subtracted from the left
RECURSIVE SumFrom(_, _)
SumFrom(x, ts) ==
  IF ts = <<>> THEN x
  ELSE SumFrom(IF Head(ts)[1] = 1 THEN FAdd(x, Head(ts)[2])
                                  ELSE FSub(x, Head(ts)[2]),
               Tail(ts))

\* uX[j] = dXdx[j][0]*u[0] + dXdx[j][1]*u[1] + dXdx[j][2]*u[2]
DCuX(L, j) ==
  Sum3(FMul(L.dXdx[j][1], L.u[1]), FMul(L.dXdx[j][2], L.u[2]),
       FMul(L.dXdx[j][3], L.u[3]))

\* uiujgij = uX[0]*uX[0] + uX[1]*uX[1] + uX[2]*uX[2]
DCuiujgij(L) ==
  Sum3(FMul(DCuX(L, 1), DCuX(L, 1)), FMul(DCuX(L, 2), DCuX(L, 2)),
       FMul(DCuX(L, 3), DCuX(L, 3)))

\* f1 = rho * sqrt(uiujgij)
DCf1(L) == FMul(L.rho, sqrt(DCuiujgij(L)))

\* TauC = (Cc*f1) / (8*(dXdxdXdxT[0][0] + dXdxdXdxT[1][1] + dXdxdXdxT[2][2])),
\* TauM = 1./f1, TauE = TauM / (Ce*cv), with Cc = Ce = 1
DCTauOf(L, f1) ==
  [f1 |-> f1,
   TauC |-> FDiv(FMul(R(1), f1),
                 FMul(R(8), Sum3(L.dXdxdXdxT[1][1], L.dXdxdXdxT[2][2],
                                 L.dXdxdXdxT[3][3]))),
   TauM |-> FDiv(R(1), f1),
   TauE |-> FDiv(FDiv(R(1), f1), FMul(R(1), L.cv))]

DCTau(L) == DCTauOf(L, DCf1(L))

\* the factors that recur in Stab_Conv:
\*   A[j] = u[j]*u[j] - (Rd*ke)/cv
\*   H[j] = E*(Rd/cv + 1) - (Rd*(u[j]*u[j] + ke))/cv
\*   H2   = E*(Rd/cv + 1) - (2*Rd*ke)/cv
\*   RcM2 = Rd/cv - 2,  RcP1 = Rd/cv + 1
DCStabCoef(L) ==
  [A |-> [j \in 1..3 |-> FSub(FMul(L.u[j], L.u[j]),
                              FDiv(FMul(L.Rd, L.ke), L.cv))],
   H |-> [j \in 1..3 |->
            FSub(FMul(L.E, FAdd(FDiv(L.Rd, L.cv), R(1))),
                 FDiv(FMul(L.Rd, FAdd(FMul(L.u[j], L.u[j]), L.ke)), L.cv))],
   H2 |-> FSub(FMul(L.E, FAdd(FDiv(L.Rd, L.cv), R(1))),
               FDiv(FMul(FMul(R(2), L.Rd), L.ke), L.cv)),
   RcM2 |-> FSub(FDiv(L.Rd, L.cv), R(2)),
   RcP1 |-> FAdd(FDiv(L.Rd, L.cv), R(1))]

\* drho[0]*(u[0]*u[0] - (Rd*ke)/cv) - dU[0][2]*u[2] - dU[1][1]*u[0]
\*   - dU[2][2]*u[0] - dU[0][1]*u[1] + dU[0][0]*u[0]*(Rd/cv - 2)
\*   + drho[1]*u[0]*u[1] + drho[2]*u[0]*u[2] - (Rd*dE[0])/cv
\*   + (Rd*dU[1][0]*u[1])/cv + (Rd*dU[2][0]*u[2])/cv
DCStabM0(L, c) ==
  SumFrom(FMul(L.drho[1], c.A[1]),
          << <<-1, FMul(L.dU[1][3], L.u[3])>>,
             <<-1, FMul(L.dU[2][2], L.u[1])>>,
             <<-1, FMul(L.dU[3][3], L.u[1])>>,
             <<-1, FMul(L.dU[1][2], L.u[2])>>,
             <<1, Mul3(L.dU[1][1], L.u[1], c.RcM2)>>,
             <<1, Mul3(L.drho[2], L.u[1], L.u[2])>>,
             <<1, Mul3(L.drho[3], L.u[1], L.u[3])>>,
             <<-1, FDiv(FMul(L.Rd, L.dE[1]), L.cv)>>,
             <<1, FDiv(Mul3(L.Rd, L.dU[2][1], L.u[2]), L.cv)>>,
             <<1, FDiv(Mul3(L.Rd, L.dU[3][1], L.u[3]), L.cv)>> >>)

\* drho[1]*(u[1]*u[1] - (Rd*ke)/cv) - dU[1][0]*u[0] - dU[1][2]*u[2]
\*   - dU[2][2]*u[1] - dU[0][0]*u[1] + dU[1][1]*u[1]*(Rd/cv - 2)
\*   + drho[0]*u[0]*u[1] + drho[2]*u[1]*u[2] - (Rd*dE[1])/cv
\*   + (Rd*dU[0][1]*u[0])/cv + (Rd*dU[2][1]*u[2])/cv
DCStabM1(L, c) ==
  SumFrom(FMul(L.drho[2], c.A[2]),
          << <<-1, FMul(L.dU[2][1], L.u[1])>>,
             <<-1, FMul(L.dU[2][3], L.u[3])>>,
             <<-1, FMul(L.dU[3][3], L.u[2])>>,
             <<-1, FMul(L.dU[1][1], L.u[2])>>,
             <<1, Mul3(L.dU[2][2], L.u[2], c.RcM2)>>,
             <<1, Mul3(L.drho[1], L.u[1], L.u[2])>>,
             <<1, Mul3(L.drho[3], L.u[2], L.u[3])>>,
             <<-1, FDiv(FMul(L.Rd, L.dE[2]), L.cv)>>,
             <<1, FDiv(Mul3(L.Rd, L.dU[1][2], L.u[1]), L.cv)>>,
             <<1, FDiv(Mul3(L.Rd, L.dU[3][2], L.u[3]), L.cv)>> >>)

\* drho[2]*(u[2]*u[2] - (Rd*ke)/cv) - dU[1][1]*u[2] - dU[2][0]*u[0]
\*   - dU[2][1]*u[1] - dU[0][0]*u[2] + dU[2][2]*u[2]*(Rd/cv - 2)
\*   + drho[0]*u[0]*u[2] + drho[1]*u[1]*u[2] - (Rd*dE[2])/cv
\*   + (Rd*dU[0][2]*u[0])/cv + (Rd*dU[1][2]*u[1])/cv
DCStabM2(L, c) ==
  SumFrom(FMul(L.drho[3], c.A[3]),
          << <<-1, FMul(L.dU[2][2], L.u[3])>>,
             <<-1, FMul(L.dU[3][1], L.u[1])>>,
             <<-1, FMul(L.dU[3][2], L.u[2])>>,
             <<-1, FMul(L.dU[1][1], L.u[3])>>,
             <<1, Mul3(L.dU[3][3], L.u[3], c.RcM2)>>,
             <<1, Mul3(L.drho[1], L.u[1], L.u[3])>>,
             <<1, Mul3(L.drho[2], L.u[2], L.u[3])>>,
             <<-1, FDiv(FMul(L.Rd, L.dE[3]), L.cv)>>,
             <<1, FDiv(Mul3(L.Rd, L.dU[1][3], L.u[1]), L.cv)>>,
             <<1, FDiv(Mul3(L.Rd, L.dU[2][3], L.u[2]), L.cv)>> >>)

\* (Rd*dU[a][b]*u[m]*u[n])/cv
DCStabCross(L, a, b, m, n) ==
  FDiv(Mul4(L.Rd, L.dU[a][b], L.u[m], L.u[n]), L.cv)

\* drho[0]*u[0]*H2 - dU[1][1]*H[1] - dU[2][2]*H[2] - dE[0]*u[0]*(Rd/cv + 1)
\*   - dE[1]*u[1]*(Rd/cv + 1) - dE[2]*u[2]*(Rd/cv + 1) - dU[0][0]*H[0]
\*   + drho[1]*u[1]*H2 + drho[2]*u[2]*H2
\*   + (Rd*dU[0][1]*u[0]*u[1])/cv + (Rd*dU[0][2]*u[0]*u[2])/cv
\*   + (Rd*dU[1][0]*u[0]*u[1])/cv + (Rd*dU[1][2]*u[1]*u[2])/cv
\*   + (Rd*dU[2][0]*u[0]*u[2])/cv + (Rd*dU[2][1]*u[1]*u[2])/cv
DCStabEN(L, c) ==
  SumFrom(Mul3(L.drho[1], L.u[1], c.H2),
          << <<-1, FMul(L.dU[2][2], c.H[2])>>,
             <<-1, FMul(L.dU[3][3], c.H[3])>>,
             <<-1, Mul3(L.dE[1], L.u[1], c.RcP1)>>,
             <<-1, Mul3(L.dE[2], L.u[2], c.RcP1)>>,
             <<-1, Mul3(L.dE[3], L.u[3], c.RcP1)>>,
             <<-1, FMul(L.dU[1][1], c.H[1])>>,
             <<1, Mul3(L.drho[2], L.u[2], c.H2)>>,
             <<1, Mul3(L.drho[3], L.u[3], c.H2)>>,
             <<1, DCStabCross(L, 1, 2, 1, 2)>>,
             <<1, DCStabCross(L, 1, 3, 1, 3)>>,
             <<1, DCStabCross(L, 2, 1, 1, 2)>>,
             <<1, DCStabCross(L, 2, 3, 2, 3)>>,
             <<1, DCStabCross(L, 3, 1, 1, 3)>>,
             <<1, DCStabCross(L, 3, 2, 2, 3)>> >>)

\* Stab_Conv[0][j]: TauM*A[j]*M[j] + TauM*u[a]*u[b]*M[m] + TauM*u[p]*u[q]*M[n]
\*   + TauE*u[j]*H2*EN
DCStabRho(L, t, c, M, EN, j, a, b, m, p, q, n) ==
  SumFrom(Mul3(t.TauM, c.A[j], M[j]),
          << <<1, Mul4(t.TauM, L.u[a], L.u[b], M[m])>>,
             <<1, Mul4(t.TauM, L.u[p], L.u[q], M[n])>>,
             <<1, Mul4(t.TauE, L.u[j], c.H2, EN)>> >>)

\* Stab_Conv[j][j-1]: TauC*(dU[0][0] + dU[1][1] + dU[2][2]) - TauM*u[a]*M[a]
\*   - TauM*u[b]*M[b] - TauE*H[j]*EN + TauM*u[j]*(Rd/cv - 2)*M[j]
DCStabDiag(L, t, c, M, EN, j, a, b) ==
  SumFrom(FMul(t.TauC, Sum3(L.dU[1][1], L.dU[2][2], L.dU[3][3])),
          << <<-1, Mul3(t.TauM, L.u[a], M[a])>>,
             <<-1, Mul3(t.TauM, L.u[b], M[b])>>,
             <<-1, Mul3(t.TauE, c.H[j], EN)>>,
             <<1, Mul4(t.TauM, L.u[j], c.RcM2, M[j])>> >>)

\* (Rd*TauM*u[a]*M[b])/cv - TauM*u[b]*M[a] + (Rd*TauE*u[m]*u[n]*EN)/cv
DCStabOff(L, t, M, EN, a, b, m, n) ==
  SumFrom(FDiv(Mul4(L.Rd, t.TauM, L.u[a], M[b]), L.cv),
          << <<-1, Mul3(t.TauM, L.u[b], M[a])>>,
             <<1, FDiv(FMul(Mul4(L.Rd, t.TauE, L.u[m], L.u[n]), EN), L.cv)>> >>)

\* Stab_Conv[4][j]: -(Rd*TauM*M[j])/cv - TauE*u[j]*(Rd/cv + 1)*EN
DCStabE(L, t, c, M, EN, j) ==
  FSub(FDiv(FNeg(Mul3(L.Rd, t.TauM, M[j])), L.cv),
       Mul4(t.TauE, L.u[j], c.RcP1, EN))

\* const CeedScalar Stab_Conv[5][3]
DCStabConvOf(L, t, c, M, EN) ==
  << <<DCStabRho(L, t, c, M, EN, 1, 1, 2, 2, 1, 3, 3),
       DCStabRho(L, t, c, M, EN, 2, 1, 2, 1, 2, 3, 3),
       DCStabRho(L, t, c, M, EN, 3, 1, 3, 1, 2, 3, 2)>>,
     <<DCStabDiag(L, t, c, M, EN, 1, 2, 3),
       DCStabOff(L, t, M, EN, 1, 2, 1, 2),
       DCStabOff(L, t, M, EN, 1, 3, 1, 3)>>,
     <<DCStabOff(L, t, M, EN, 2, 1, 1, 2),
       DCStabDiag(L, t, c, M, EN, 2, 1, 3),
       DCStabOff(L, t, M, EN, 2, 3, 2, 3)>>,
     <<DCStabOff(L, t, M, EN, 3, 1, 1, 3),
       DCStabOff(L, t, M, EN, 3, 2, 2, 3),
       DCStabDiag(L, t, c, M, EN, 3, 1, 2)>>,
     <<DCStabE(L, t, c, M, EN, 1), DCStabE(L, t, c, M, EN, 2),
       DCStabE(L, t, c, M, EN, 3)>> >>

DCStabConv(L, t, c) ==
  DCStabConvOf(L, t, c, <<DCStabM0(L, c), DCStabM1(L, c), DCStabM2(L, c)>>,
               DCStabEN(L, c))

\* the locals of the stabilization: f1, TauC, TauM, TauE and Stab_Conv
DCStab(L) ==
  DCTau(L) @@ [uiujgij |-> DCuiujgij(L),
               Stab_Conv |-> DCStabConv(L, DCTau(L), DCStabCoef(L))]

\* seeded fault: the slots of 22 and 23 exchanged
FuviscidxSwapped == << <<0, 1, 2>>, <<1, 4, 3>>, <<2, 3, 5>> >>

\* const CeedInt Fuviscidx[3][3] = {{0, 1, 2}, {1, 3, 4}, {2, 4, 5}};
Fuviscidx == << <<0, 1, 2>>, <<1, 3, 4>>, <<2, 4, 5>> >>

\* The statements of one iteration:
\*   0  dv[j][0][i] = ..; v[0][i] = 0; dv[k][j+1][i] = ..     (j, k in 0..2)
\*   1  load dv[k][j+1][i]           2  dv[k][j+1][i] -= wJ*(Fu ..)
\*   3  v[1][i], v[2][i], v[3][i] = ..; dv[j][4][i] = ..
\*   4  load dv[j][4][i]             5  dv[j][4][i] -= wJ*(Fe ..); v[4][i] = ..
DCLoads(p) ==
  CASE p = 1 -> [n \in 1..9 |-> <<1, DCSlot((n - 1) % 3, ((n - 1) \div 3) + 1)>>]
    [] p = 4 -> [n \in 1..3 |-> <<1, DCSlot(n - 1, 4)>>]
    [] OTHER -> <<>>

\* seeded fault: contracted against the first index of dXdx
DCRowTransposed(a, dXdx, kk) ==
  Sum3(FMul(a[1], dXdx[1][kk]), FMul(a[2], dXdx[2][kk]), FMul(a[3], dXdx[3][kk]))

\* a[0]*dXdx[k][0] + a[1]*dXdx[k][1] + a[2]*dXdx[k][2]
DCRow(a, dXdx, kk) ==
  Sum3(FMul(a[1], dXdx[kk][1]), FMul(a[2], dXdx[kk][2]), FMul(a[3], dXdx[kk][3]))

\* rho*u[j]*u[m] + (j==m ? P : 0), m = 0..2
DCAdv(L, j) ==
  [m \in 1..3 |-> FAdd(FMul(FMul(L.rho, L.u[j]), L.u[m]),
                       IF j = m THEN L.P ELSE R(0))]

\* seeded fault: the gravity source without the quadrature weight
DCGravityNoWeight(L) == FMul(FNeg(L.rho), L.g)

\* -rho*g*wJ
DCGravity(L) == FMul(FMul(FNeg(L.rho), L.g), L.wJ)

DCStoresOf(p, T, L) ==
  CASE p = 0 ->
         [j \in 1..3 |->
            <<1, DCSlot(j - 1, 0),
              FMul(L.wJ, DCRow([m \in 1..3 |-> FMul(L.rho, L.u[m])], L.dXdx, j))>>]
         \o << <<0, 0, R(0)>> >>
         \o [n \in 1..9 |->
               <<1, DCSlot((n - 1) % 3, ((n - 1) \div 3) + 1),
                 FMul(L.wJ, DCRow(DCAdv(L, ((n - 1) \div 3) + 1), L.dXdx,
                                  ((n - 1) % 3) + 1))>>]
    [] p = 2 ->
         [n \in 1..9 |->
            <<1, DCSlot((n - 1) % 3, ((n - 1) \div 3) + 1),
              FSub(T[n],
                   FMul(L.wJ,
                        DCRow([m \in 1..3 |->
                                 L.Fu[Fuviscidx[((n - 1) \div 3) + 1][m] + 1]],
                              L.dXdx, ((n - 1) % 3) + 1)))>>]
    [] p = 3 ->
         << <<0, 1, R(0)>>, <<0, 2, R(0)>>,
            <<0, 3, DCGravity(L)>> >>
         \o [j \in 1..3 |->
               <<1, DCSlot(j - 1, 4),
                 FMul(FMul(L.wJ, FAdd(L.E, L.P)), DCRow(L.u, L.dXdx, j))>>]
    [] p = 5 ->
         [j \in 1..3 |->
            <<1, DCSlot(j - 1, 4),
              FSub(T[j], FMul(L.wJ, DCRow(L.Fe, L.dXdx, j)))>>]
         \o << <<0, 4, FMul(FMul(FMul(FNeg(L.rho), L.g), L.u[3]), L.wJ)>> >>
    [] OTHER -> <<>>

\* the stores of step p of the iteration of point i, T being the values it
\* loaded last and g what the uninitialized du holds
DCStores(p, i, T, g) ==
  IF p \in {0, 2, 3, 5} THEN DCStoresOf(p, T, DCLocals(i, g)) ELSE <<>>

DCReads(p) ==
  IF p = 0
  THEN {<<0, c>> : c \in 0..4} \cup {<<1, c>> : c \in 0..14} \cup {<<2, c>> : c \in 0..9}
  ELSE {}

----------------------------------------------------------------------------
(***************************************************************************)
(* The loop over the quadrature points.                                    *)
(***************************************************************************)
\* the kernels that return a status
CKernels == {"ICsDC", "DC", "SWICs", "SWExplicit", "SWImplicit", "SWJacobian"}

\* seeded fault: a kernel reports failure
KernelStatusFailure(k) == IF k \in CKernels THEN 1 ELSE -1

\* return 0; the OKL kernels are void and leave -1, no status
KernelStatus(k) == IF k \in CKernels THEN 0 ELSE -1

\* the context[n] a kernel reads before its loop
CtxProlog(k) ==
  CASE k = "ICsDC" -> 0..11
    [] k = "DC"    -> 0..6
    [] k = "SWICs" -> 0..2
    [] k \in {"SWExplicit", "SWImplicit", "SWJacobian"} -> {0}
    [] OTHER -> {}

\* steps of one iteration
NPhase(k) == CASE k = "SetupDiff3Rhs" -> 9 [] k = "DC" -> 6 [] OTHER -> 1

\* One step of the iteration of point i: it loads the <<field, component>>
\* L of out[], stores the <<field, component, value>> S (SB in the second
\* run) and has read the <<field, component>> RD of in[]; g is what an
\* uninitialized local of the iteration holds.
Iterate(i, g, L, S, SB, RD) ==
  /\ pc' = [pc EXCEPT ![i] = @ + 1]
  /\ uninit' = [uninit EXCEPT ![i] = g]
  /\ tmp' = IF L = <<>> THEN tmp
            ELSE [tmp EXCEPT
                    ![i] = [n \in 1..Len(L) |->
                              Peek(out, Addr(OTab(L[n][1]), i, L[n][2], Q))]]
  /\ tmpB' = IF L = <<>> THEN tmpB
             ELSE [tmpB EXCEPT
                     ![i] = [n \in 1..Len(L) |->
                               Peek(outB, Addr(OTab(L[n][1]), i, L[n][2], Q))]]
  /\ out' = (IF StoreArray = "out" THEN ApplyStores(out, i, S) ELSE out)
  /\ in' = (IF StoreArray = "out" THEN in ELSE ApplyStores(in, i, S))
  /\ outB' = ApplyStores(outB, i, SB)
  /\ acc' = [acc EXCEPT ![i] = @
        \cup {<<"r", "out", L[n][1], L[n][2],
                Addr(OTab(L[n][1]), i, L[n][2], Q)>> : n \in 1..Len(L)}
        \cup {<<"w", StoreArray, S[n][1], S[n][2],
                Addr(OTab(S[n][1]), i, S[n][2], Q)>> : n \in 1..Len(S)}
        \cup {<<"r", "in", fc[1], fc[2], Addr(ITab(fc[1]), i, fc[2], Q)>> :
                fc \in RD}]
  /\ UNCHANGED <<kernel, Q, ctx, iOf7, oOf7, junk, call, done, ret, first>>

\* the iteration of point i of kernel k can take a step
Running(k, i) ==
  kernel = k /\ ~done /\ i \in DOMAIN pc /\ pc[i] < NPhase(k)

JunkVals == {R(n) : n \in 0..MaxVal}

f_build_mass(i) ==
  /\ Running("f_build_mass", i)
  /\ \E S \in {BuildMassStores(i)} :
       Iterate(i, uninit[i], <<>>, S, S, BuildMassReads)
  /\ br' = [br EXCEPT ![i] = @ \cup
              {BuildMassBranches(BuildMassDims)[n] :
                 n \in 1..Len(BuildMassBranches(BuildMassDims))}]
  /\ cacc' = cacc \cup {0, 1}
  /\ UNCHANGED loc

f_apply_mass(i) ==
  /\ Running("f_apply_mass", i)
  /\ \E S \in {ApplyMassStores(i)} :
       Iterate(i, uninit[i], <<>>, S, S, {<<0, 0>>, <<1, 0>>})
  /\ UNCHANGED <<br, loc, cacc>>

SetupDiff3Rhs(i) ==
  /\ Running("SetupDiff3Rhs", i)
  /\ \E S \in {SetupDiff3RhsStores(pc[i], i, tmp[i])},
        SB \in {SetupDiff3RhsStores(pc[i], i, tmpB[i])} :
       Iterate(i, uninit[i], SetupDiff3RhsLoads(pc[i]), S, SB,
               SetupDiff3RhsReads(pc[i]))
  /\ UNCHANGED <<br, loc, cacc>>

Diff3(i) ==
  /\ Running("Diff3", i)
  /\ \E S \in {Diff3Stores(i)} : Iterate(i, uninit[i], <<>>, S, S, Diff3Reads)
  /\ UNCHANGED <<br, loc, cacc>>

ICsDC(i) ==
  /\ Running("ICsDC", i)
  /\ \E S \in {ICsDCStores(i)} : Iterate(i, uninit[i], <<>>, S, S, ICsDCReads)
  /\ cacc' = cacc \cup ICsDCPeriodicReads(i)
  /\ UNCHANGED <<br, loc>>

\* du is allocated, uninitialized, when the iteration starts
DC(i) ==
  /\ Running("DC", i)
  /\ \E g \in (IF pc[i] = 0 THEN JunkVals ELSE {uninit[i]}) :
       /\ \E S \in {DCStores(pc[i], i, tmp[i], g)},
             SB \in {DCStores(pc[i], i, tmpB[i], g)} :
            Iterate(i, g, DCLoads(pc[i]), S, SB, DCReads(pc[i]))
       /\ IF pc[i] = 0
          THEN \E L \in {DCLocals(i, g)} :
                 loc' = [loc EXCEPT ![i] = L @@ DCStab(L)]
          ELSE UNCHANGED loc
  /\ UNCHANGED <<br, cacc>>

SWICs(i) ==
  /\ Running("SWICs", i)
  /\ \E S \in {SWICsStores(i)} : Iterate(i, uninit[i], <<>>, S, S, SWICsReads)
  /\ UNCHANGED <<br, loc, cacc>>

SWExplicit(i) ==
  /\ Running("SWExplicit", i)
  /\ \E S \in {SWExplicitStores(i)} :
       Iterate(i, uninit[i], <<>>, S, S, SWExplicitReads)
  /\ loc' = [loc EXCEPT ![i] = [wJ |-> SWwJ(i), wBJ |-> SWwBJ(i)]]
  /\ UNCHANGED <<br, cacc>>

SWImplicit(i) ==
  /\ Running("SWImplicit", i)
  /\ \E S \in {SWImplicitStores(i)} :
       Iterate(i, uninit[i], <<>>, S, S, SWImplicitReads)
  /\ loc' = [loc EXCEPT ![i] = [wJ |-> SWwJ(i), wBJ |-> SWwBJ(i)]]
  /\ UNCHANGED <<br, cacc>>

SWJacobian(i) ==
  /\ Running("SWJacobian", i)
  /\ \E S \in {SWJacobianStores(i)} :
       Iterate(i, uninit[i], <<>>, S, S, SWJacobianReads)
  /\ loc' = [loc EXCEPT ![i] = [wBJ |-> SWwBJ(i)]]
  /\ UNCHANGED <<br, cacc>>

\* the loop is over: return 0;
Return ==
  /\ ~done
  /\ \A i \in DOMAIN pc : pc[i] = NPhase(kernel)
  /\ done' = TRUE
  /\ ret' = KernelStatus(kernel)
  /\ first' = IF call = 1 THEN out ELSE first
  /\ UNCHANGED <<kernel, Q, ctx, iOf7, oOf7, junk, in, out, outB, pc, tmp, tmpB,
                 uninit, call, acc, br, loc, cacc>>

\* the caller invokes the kernel again, with the same arguments
Reinvoke ==
  /\ done
  /\ call = 1
  /\ call' = 2
  /\ done' = FALSE
  /\ pc' = [i \in DOMAIN pc |-> 0]
  /\ tmp' = [i \in DOMAIN pc |-> <<>>]
  /\ tmpB' = [i \in DOMAIN pc |-> <<>>]
  /\ uninit' = [i \in DOMAIN pc |-> R(0)]
  /\ acc' = [i \in DOMAIN pc |-> {}]
  /\ br' = [i \in DOMAIN pc |-> {}]
  /\ loc' = [i \in DOMAIN pc |-> <<>>]
  /\ cacc' = CtxProlog(kernel)
  /\ UNCHANGED <<kernel, Q, ctx, iOf7, oOf7, junk, in, out, outB, ret, first>>

----------------------------------------------------------------------------
(***************************************************************************)
(* The caller: offset tables, buffers and context blocks.                  *)
(***************************************************************************)
\* base offsets of fields with n[f] components of q points each, pad unused
\* elements after each field
RECURSIVE Bases(_, _, _, _)
Bases(n, pad, q, start) ==
  IF n = <<>> THEN <<>>
  ELSE <<start>> \o Bases(Tail(n), pad, q, start + Head(n) * q + pad)

RECURSIVE BufLen(_, _, _)
BufLen(n, pad, q) ==
  IF n = <<>> THEN 0 ELSE Head(n) * q + pad + BufLen(Tail(n), pad, q)

\* input values -1..3
InVal(seed, a) == ((a * a + seed * a + 3 + seed) % 5) - 1

CtxLen(k) ==
  CASE k = "ICsDC" -> 15 [] k = "DC" -> 7 [] k = "SWICs" -> 3
    [] k \in {"SWExplicit", "SWImplicit", "SWJacobian"} -> 1
    [] OTHER -> 0

\* context values 1..3; the periodicity flags of ICsDC are 0 or 1
CtxVal(k, seed, n) ==
  IF k = "ICsDC" /\ n >= 12 THEN R((n + seed) % 2) ELSE R(1 + ((n + seed) % 3))

CtxSet(k, seed) ==
  IF k = "f_build_mass" THEN {<<d, sd>> : d \in 0..MaxDim, sd \in 0..MaxDim}
  ELSE {[n \in 1..CtxLen(k) |-> CtxVal(k, seed, n - 1)]}

JunkSet(k) ==
  CASE k = "SetupDiff3Rhs" -> {[off |-> o, val |-> R(0)] : o \in 0..MaxOob}
    [] k \in {"SWExplicit", "SWImplicit", "SWJacobian"} ->
         {[off |-> 0, val |-> x] : x \in JunkVals}
    [] OTHER -> {[off |-> 0, val |-> R(0)]}

\* initial contents of the output buffer, and of that of the second run
FillA(a) == R(100 + a)

FillB(a) == R(200 + a)

InitWith(k, q, pad, c, jk, inbuf) ==
  /\ kernel = k
  /\ Q = q
  /\ ctx = c
  /\ iOf7 = Bases(NIn(k), pad, q, 0)
  /\ oOf7 = Bases(NOut(k), pad, q, 0)
  /\ junk = jk
  /\ in = inbuf
  /\ out = [a \in 0..(BufLen(NOut(k), pad, q) - 1) |-> FillA(a)]
  /\ outB = [a \in 0..(BufLen(NOut(k), pad, q) - 1) |-> FillB(a)]
  /\ pc = [i \in 0..(q - 1) |-> 0]
  /\ tmp = [i \in 0..(q - 1) |-> <<>>]
  /\ tmpB = [i \in 0..(q - 1) |-> <<>>]
  /\ uninit = [i \in 0..(q - 1) |-> R(0)]
  /\ call = 1
  /\ done = FALSE
  /\ ret = -1
  /\ first = <<>>
  /\ acc = [i \in 0..(q - 1) |-> {}]
  /\ br = [i \in 0..(q - 1) |-> {}]
  /\ loc = [i \in 0..(q - 1) |-> <<>>]
  /\ cacc = CtxProlog(k)

\* kernel k on a generated input buffer
InitKernel(k) ==
  \E q \in 0..MaxQ, seed \in 0..MaxSeed, pad \in 0..MaxPad :
    \E c \in CtxSet(k, seed), jk \in JunkSet(k) :
      InitWith(k, q, pad, c, jk,
               [a \in 0..(BufLen(NIn(k), pad, q) - 1) |-> R(InVal(seed, a))])

InitSeed == \E k \in Kernels : InitKernel(k)

\* f_build_mass at one point with dim = space_dim = d on every d x d
\* Jacobian block with entries 0..MaxVal and the weight 2
InitDet ==
  \E d \in 1..3 :
    \E J \in [0..(d * d - 1) -> 0..MaxVal] :
      InitWith("f_build_mass", 1, 0, <<d, d>>, [off |-> 0, val |-> R(0)],
               [a \in 0..9 |->
                  IF a < d * d THEN R(J[a]) ELSE IF a < 9 THEN R(0) ELSE R(2)])

\* f_apply_mass on every pair of value and weight arrays with entries
\* 0..MaxVal
InitMass ==
  \E q \in 1..MaxQ :
    \E u \in [0..(2 * q - 1) -> 0..MaxVal] :
      InitWith("f_apply_mass", q, 0, <<>>, [off |-> 0, val |-> R(0)],
               [a \in 0..(2 * q - 1) |-> R(u[a])])

\* the input buffer of DC for one point: density rho, momentum U, energy 3,
\* gradients generated or all zero, wJ = 1 and the inverse Jacobian the
\* identity or generated
DCPointIn(seed, rho, U, grads, unit) ==
  LET b == Bases(NIn("DC"), 0, 1, 0)
  IN  [a \in 0..(BufLen(NIn("DC"), 0, 1) - 1) |->
         IF a = b[1] THEN R(rho)
         ELSE IF a < b[1] + 4 THEN R(U[a - b[1]])
         ELSE IF a < b[2] THEN R(3)
         ELSE IF a < b[3] THEN (IF grads THEN R(InVal(seed, a)) ELSE R(0))
         ELSE IF a = b[3] THEN R(1)
         ELSE IF a < b[4]
              THEN (IF unit
                    THEN R(IF (a - b[3] - 1) % 4 = 0 THEN 1 ELSE 0)
                    ELSE R(InVal(seed, a)))
         ELSE R(0)]

\* DC at one point whose density is negative, zero or positive, at rest or
\* moving, in a uniform state or not
InitDCPoint ==
  \E seed \in 0..MaxSeed, rho \in -1..MaxVal, grads \in BOOLEAN, unit \in BOOLEAN :
    \E U \in {<<0, 0, 0>>, <<1, 0, 0>>, <<1, 2, 2>>}, c \in CtxSet("DC", seed) :
      InitWith("DC", 1, 0, c, [off |-> 0, val |-> R(0)],
               DCPointIn(seed, rho, U, grads, unit))

Init == InitSeed \/ InitDet \/ InitMass \/ InitDCPoint

Next ==
  \/ \E i \in 0..(MaxQ - 1) :
       \/ f_build_mass(i) \/ f_apply_mass(i) \/ SetupDiff3Rhs(i) \/ Diff3(i)
       \/ ICsDC(i) \/ DC(i)
       \/ SWICs(i) \/ SWExplicit(i) \/ SWImplicit(i) \/ SWJacobian(i)
  \/ Return
  \/ Reinvoke

Spec == Init /\ [][Next]_vars

\* f_build_mass alone
InitBuildMass == InitKernel("f_build_mass") \/ InitDet

NextBuildMass ==
  \/ \E i \in 0..(MaxQ - 1) : f_build_mass(i)
  \/ Return
  \/ Reinvoke

SpecBuildMass == InitBuildMass /\ [][NextBuildMass]_vars

\* f_apply_mass alone
InitApplyMass == InitKernel("f_apply_mass") \/ InitMass

NextApplyMass ==
  \/ \E i \in 0..(MaxQ - 1) : f_apply_mass(i)
  \/ Return
  \/ Reinvoke

SpecApplyMass == InitApplyMass /\ [][NextApplyMass]_vars

\* SetupDiff3Rhs and Diff3 alone
InitDiff == InitKernel("SetupDiff3Rhs") \/ InitKernel("Diff3")

NextDiff ==
  \/ \E i \in 0..(MaxQ - 1) : SetupDiff3Rhs(i) \/ Diff3(i)
  \/ Return
  \/ Reinvoke

SpecDiff == InitDiff /\ [][NextDiff]_vars

\* DC alone
InitDC == InitKernel("DC") \/ InitDCPoint

NextDC ==
  \/ \E i \in 0..(MaxQ - 1) : DC(i)
  \/ Return
  \/ Reinvoke

SpecDC == InitDC /\ [][NextDC]_vars

\* the shallow-water residual and Jacobian kernels alone
InitSW ==
  InitKernel("SWExplicit") \/ InitKernel("SWImplicit") \/ InitKernel("SWJacobian")

NextSW ==
  \/ \E i \in 0..(MaxQ - 1) : SWExplicit(i) \/ SWImplicit(i) \/ SWJacobian(i)
  \/ Return
  \/ Reinvoke

SpecSW == InitSW /\ [][NextSW]_vars

\* ICsDC at one point with coordinates in 0..MaxCoord on every setting of
\* the three periodicity flags; the domain lengths are 1, 2 and 3
InitICsDCPoint ==
  \E X \in [0..2 -> 0..MaxCoord], per \in [0..2 -> 0..1] :
    InitWith("ICsDC", 1, 0,
             [n \in 1..15 |-> IF n >= 13 THEN R(per[n - 13])
                              ELSE CtxVal("ICsDC", 0, n - 1)],
             [off |-> 0, val |-> R(0)],
             [a \in 0..2 |-> R(X[a])])

\* ICsDC alone
InitICsDC == InitKernel("ICsDC") \/ InitICsDCPoint

NextICsDC ==
  \/ \E i \in 0..(MaxQ - 1) : ICsDC(i)
  \/ Return
  \/ Reinvoke

SpecICsDC == InitICsDC /\ [][NextICsDC]_vars

----------------------------------------------------------------------------
(***************************************************************************)
(* Properties of the kernels.                                              *)
(***************************************************************************)

\* C1: invoking a kernel a second time with the same context, Q, offset
\* tables and input buffer on the same output buffer leaves the output
\* buffer, slot for slot, as the first invocation left it.
C1_Idempotent == (done /\ call = 2) => out = first

\* C2: two invocations with the same arguments but different initial output
\* contents end with the same value in every slot of every declared output
\* field.
C2_Pure ==
  done =>
    \A f \in 1..Len(oOf7) :
      \A c \in 0..(NOut(kernel)[f] - 1) :
        \A i \in 0..(Q - 1) :
          out[oOf7[f] + i + c * Q] = outB[oOf7[f] + i + c * Q]

\* C3: with offset tables whose fields do not overlap, no iteration i loads
\* an output location that another iteration j stores to in the same
\* invocation (so that every interleaving ends with the same output buffer).
C3_OrderIndependent ==
  \A i \in DOMAIN acc :
    \A j \in DOMAIN acc \ {i} :
      {e[5] : e \in {x \in acc[i] : x[1] = "r" /\ x[2] = "out"}}
        \cap {e[5] : e \in {x \in acc[j] : x[1] = "w" /\ x[2] = "out"}} = {}

\* C4: every location iteration i stores to is oOf7[f] + i + c*Q for an
\* output field f and a component c >= 0, the locations stored to by two
\* distinct iterations are disjoint, and no other location of the output
\* buffer changes.
C4_PointDisjointWrites ==
  LET W(i) == {e[5] : e \in {x \in acc[i] : x[1] = "w"}}
  IN  /\ \A i \in DOMAIN acc :
           /\ \A e \in acc[i] :
                e[1] = "w" =>
                  /\ e[2] = "out"
                  /\ e[3] < Len(oOf7)
                  /\ e[4] >= 0
                  /\ e[5] = oOf7[e[3] + 1] + i + e[4] * Q
                  /\ e[5] \in DOMAIN out
           /\ \A j \in DOMAIN acc \ {i} : W(i) \cap W(j) = {}
      /\ call = 1 =>
           \A a \in DOMAIN out :
             a \notin UNION {W(i) : i \in DOMAIN acc} => out[a] = FillA(a)

\* C4 is exercised: DC has returned after each of two points stored its 20
\* output slots.
C4_Witness ==
  /\ kernel = "DC" /\ done /\ Q = 2
  /\ \A i \in DOMAIN acc :
       Cardinality({e[5] : e \in {x \in acc[i] : x[1] = "w"}}) = 20

\* C5: no kernel ever loads from its output buffer, and what it stores is
\* computed from the input buffer at the same point and the context alone:
\* the stored values do not vary with the contents of the output buffer.
C5_WriteOnly ==
  \A i \in DOMAIN acc :
    \A e \in acc[i] :
      /\ ~(e[1] = "r" /\ e[2] = "out")
      /\ (e[1] = "r" /\ e[2] = "in") => e[5] = ITab(e[3]) + i + e[4] * Q
      /\ (e[1] = "w" /\ e[5] \in DOMAIN out) => out[e[5]] = outB[e[5]]

\* C6: in f_build_mass, f_apply_mass, SetupDiff3Rhs and Diff3 every access of
\* point i is array[offset[field] + i + c*Q] with field one the kernel
\* declares and 0 <= c < its component count (dim*dim for the Jacobian block
\* of f_build_mass), hence inside the field's own region.
C6_FieldAddressing ==
  kernel \in {"f_build_mass", "f_apply_mass", "SetupDiff3Rhs", "Diff3"} =>
    \A i \in DOMAIN acc :
      \A e \in acc[i] :
        LET n   == IF e[2] = "in" THEN NIn(kernel) ELSE NOut(kernel)
            tab == IF e[2] = "in" THEN iOf7 ELSE oOf7
            cnt == IF kernel = "f_build_mass" /\ e[2] = "in" /\ e[3] = 0
                   THEN ctx[1] * ctx[1] ELSE n[e[3] + 1]
        IN  /\ e[3] >= 0 /\ e[3] < Len(n)
            /\ e[4] >= 0 /\ e[4] < cnt
            /\ e[5] = tab[e[3] + 1] + i + e[4] * Q
            /\ e[5] >= tab[e[3] + 1]
            /\ e[5] <= tab[e[3] + 1] + cnt * Q - 1

\* C7: SetupDiff3Rhs indexes the output offset table at positions 0 and 1
\* only.
C7_TwoOutputFields ==
  kernel = "SetupDiff3Rhs" =>
    \A i \in DOMAIN acc :
      \A e \in acc[i] : e[2] = "out" => e[3] \in {0, 1}

\* C8: f_apply_mass leaves in[iOf7[1]+i] * in[iOf7[0]+i] in out[oOf7[0]+i]
\* for every point i it has processed, stores nowhere else and changes no
\* other output location.
C8_ApplyMass ==
  kernel = "f_apply_mass" =>
    /\ \A i \in DOMAIN pc :
         (pc[i] = 1 \/ call = 2) =>
           out[oOf7[1] + i] = R(in[iOf7[2] + i][1] * in[iOf7[1] + i][1])
    /\ \A i \in DOMAIN acc :
         \A e \in acc[i] : e[1] = "w" => e[5] = oOf7[1] + i
    /\ \A a \in DOMAIN out :
         (\A i \in DOMAIN pc : a # oOf7[1] + i \/ (pc[i] = 0 /\ call = 1)) =>
           out[a] = FillA(a)

\* C8 is exercised: f_apply_mass has returned on two points, one with a
\* nonzero product, with output locations beyond the field.
C8_Witness ==
  /\ kernel = "f_apply_mass" /\ done /\ Q = 2
  /\ Cardinality(DOMAIN out) > Q
  /\ \E i \in DOMAIN pc : out[oOf7[1] + i] \notin {R(0), FillA(oOf7[1] + i)}

\* C9: the value f_build_mass stores for point i is weight[i] * det(J), with
\* det(J) = J0 in branch 11, J0*J3 - J1*J2 in branch 22 and the determinant
\* of the 3x3 block in branch 33 (here by the rule of Sarrus), component c
\* of J being in[iOf7[0] + i + c*Q]; for the identity it is weight[i].
C9_BuildMassDet ==
  kernel = "f_build_mass" =>
    \A i \in DOMAIN pc :
      pc[i] = 1 =>
        LET J(c) == in[iOf7[1] + i + c * Q][1]
            w    == in[iOf7[2] + i][1]
            det1 == J(0)
            det2 == J(0) * J(3) - J(1) * J(2)
            det3 == J(0) * J(4) * J(8) + J(1) * J(5) * J(6) + J(2) * J(3) * J(7)
                    - J(2) * J(4) * J(6) - J(1) * J(3) * J(8) - J(0) * J(5) * J(7)
            v    == out[oOf7[1] + i]
            unit2 == J(0) = 1 /\ J(1) = 0 /\ J(2) = 0 /\ J(3) = 1
            unit3 == \A c \in 0..8 : J(c) = (IF c \in {0, 4, 8} THEN 1 ELSE 0)
        IN  /\ 11 \in br[i] => (v = R(w * det1) /\ (J(0) = 1 => v = R(w)))
            /\ 22 \in br[i] => (v = R(w * det2) /\ (unit2 => v = R(w)))
            /\ 33 \in br[i] => (v = R(w * det3) /\ (unit3 => v = R(w)))

\* C9 is exercised: the 3x3 branch has run on the identity and stored the
\* weight.
C9_Witness ==
  /\ kernel = "f_build_mass" /\ done /\ Q = 1 /\ br[0] = {33}
  /\ \A c \in 0..8 : in[iOf7[1] + c] = R(IF c \in {0, 4, 8} THEN 1 ELSE 0)
  /\ in[iOf7[2]] = R(2)
  /\ out[oOf7[1]] = R(2)

\* C10, as the code has it: the branch f_build_mass executes is the one
\* selected by dim + 10*space_dim (1x1 for 11, 2x2 for 22, 3x3 for 33, none
\* otherwise), dim = ctx[0] and space_dim = ctx[1].
C10_DispatchTag ==
  kernel = "f_build_mass" =>
    \A i \in DOMAIN pc :
      pc[i] = 1 =>
        /\ br[i] = {ctx[1] + 10 * ctx[2]} \cap {11, 22, 33}
        /\ ({e \in acc[i] : e[1] = "w"} # {})
             <=> (ctx[1] + 10 * ctx[2] \in {11, 22, 33})

\* C10 is exercised where the two tags differ: dim = 11, space_dim = 0 runs
\* the 1x1 branch.
C10_Witness ==
  /\ kernel = "f_build_mass" /\ ctx = <<11, 0>>
  /\ \E i \in DOMAIN pc : pc[i] = 1 /\ br[i] = {11}

\* C10, as stated: the branch executed is the one selected by
\* dim*10 + space_dim.
C10_DispatchTagAsStated ==
  kernel = "f_build_mass" =>
    \A i \in DOMAIN pc :
      pc[i] = 1 =>
        /\ br[i] = {ctx[1] * 10 + ctx[2]} \cap {11, 22, 33}
        /\ ({e \in acc[i] : e[1] = "w"} # {})
             <=> (ctx[1] * 10 + ctx[2] \in {11, 22, 33})

\* The factors of a product a*b*c*..., in order: a value that is not a
\* product is its own single factor.
RECURSIVE Factors(_)
Factors(v) ==
  IF Len(v) > 2 /\ v[1] = 3
  THEN Factors(SubSeq(v, 3, 2 + v[2])) \o Factors(SubSeq(v, 3 + v[2], Len(v)))
  ELSE <<v>>

\* the product of the rational factors
RECURSIVE Coefficient(_)
Coefficient(fs) ==
  IF fs = <<>> THEN R(1)
  ELSE IF IsRat(Head(fs)) THEN FMul(Head(fs), Coefficient(Tail(fs)))
  ELSE Coefficient(Tail(fs))

\* the factors that are not rational: M_PI and the sines
Opaque(fs) == SelectSeq(fs, LAMBDA f : ~IsRat(f))

\* two sequences with the same elements, each as many times
SameBag(fs, gs) ==
  /\ Len(fs) = Len(gs)
  /\ \A n \in 1..Len(fs) :
       Cardinality({m \in 1..Len(fs) : fs[m] = fs[n]})
         = Cardinality({m \in 1..Len(gs) : gs[m] = fs[n]})

\* C11: once SetupDiff3Rhs has stored them for point i, component 0 of the
\* target output is S = sin(pi(0+1*x)) * sin(pi(1+2*y)) * sin(pi(2+3*z)) and
\* component 0 of the source output is, as a product, rho * pi * pi * 14 * S
\* with rho = weight[i] * det(J), J the 3x3 block at components 0..8 of the
\* Jacobian field.
C11_ManufacturedRhs ==
  kernel = "SetupDiff3Rhs" =>
    \A i \in DOMAIN pc :
      LET X(c) == in[iOf7[1] + i + c * Q][1]
          J(c) == in[iOf7[2] + i + c * Q][1]
          w    == in[iOf7[3] + i][1]
          det  == J(0) * J(4) * J(8) + J(1) * J(5) * J(6) + J(2) * J(3) * J(7)
                  - J(2) * J(4) * J(6) - J(1) * J(3) * J(8) - J(0) * J(5) * J(7)
          S    == FMul(FMul(sin(FMul(M_PI, R(0 + 1 * X(0)))),
                            sin(FMul(M_PI, R(1 + 2 * X(1))))),
                       sin(FMul(M_PI, R(2 + 3 * X(2)))))
          src  == Factors(out[oOf7[2] + i])
      IN  /\ (pc[i] >= 1 \/ call = 2) => out[oOf7[1] + i] = S
          /\ (pc[i] >= 5 \/ call = 2) =>
               /\ Coefficient(src) = R(w * det * (1 + 4 + 9))
               /\ SameBag(Opaque(src), <<M_PI, M_PI>> \o Factors(S))

\* C11 is exercised: SetupDiff3Rhs has returned on two points, one of them
\* with a source term whose coefficient rho*14 is not zero.
C11_Witness ==
  /\ kernel = "SetupDiff3Rhs" /\ done /\ Q = 2
  /\ \E i \in DOMAIN pc :
       Coefficient(Factors(out[oOf7[2] + i])) \notin {R(0), R(1)}

\* C12: the gradient-test output DC writes carries the stabilization: at a
\* point where the contribution wJ * (Stab_Conv[c][0]*dXdx[d][0] +
\* Stab_Conv[c][1]*dXdx[d][1] + Stab_Conv[c][2]*dXdx[d][2]) of the
\* stabilization block to dv[d][c] is a number other than zero, the value
\* written to dv[d][c] is not the Galerkin flux contribution alone.
C12_StabilizationInResult ==
  (kernel = "DC" /\ done) =>
    \A i \in DOMAIN pc :
      \A c \in 1..5, d \in 1..3 :
        LET L == loc[i]
            K == FMul(L.wJ, DCRow(L.Stab_Conv[c], L.dXdx, d))
            G == IF c = 1
                 THEN FMul(L.wJ, DCRow([m \in 1..3 |-> FMul(L.rho, L.u[m])],
                                       L.dXdx, d))
                 ELSE IF c = 5
                 THEN FSub(FMul(FMul(L.wJ, FAdd(L.E, L.P)), DCRow(L.u, L.dXdx, d)),
                           FMul(L.wJ, DCRow(L.Fe, L.dXdx, d)))
                 ELSE FSub(FMul(L.wJ, DCRow(DCAdv(L, c - 1), L.dXdx, d)),
                           FMul(L.wJ,
                                DCRow([m \in 1..3 |->
                                         L.Fu[Fuviscidx[c - 1][m] + 1]],
                                      L.dXdx, d)))
        IN  (IsRat(K) /\ K[2] # 0 /\ K[1] # 0) =>
              out[oOf7[2] + i + DCSlot(d - 1, c - 1) * Q] # G

\* C13: at a point of DC with positive density, zero momentum and all 15
\* reference gradients of the state zero, every entry of Stab_Conv, of Fu
\* and of Fe is exactly zero, and every output slot of the point other than
\* v[3] and v[4] holds zero when DC has returned.
C13_RestState ==
  (kernel = "DC" /\ done) =>
    \A i \in DOMAIN pc :
      LET q(c)  == in[iOf7[1] + i + c * Q]
          dq(c) == in[iOf7[2] + i + c * Q]
          L     == loc[i]
      IN  (/\ FLess(R(0), q(0))
           /\ \A c \in 1..3 : q(c) = R(0)
           /\ \A c \in 0..14 : dq(c) = R(0))
          => /\ \A c \in 1..5, m \in 1..3 : L.Stab_Conv[c][m] = R(0)
             /\ \A n \in 1..6 : L.Fu[n] = R(0)
             /\ \A n \in 1..3 : L.Fe[n] = R(0)
             /\ \A c \in 0..2 : out[oOf7[1] + i + c * Q] = R(0)
             /\ \A c \in 0..14 : out[oOf7[2] + i + c * Q] = R(0)

\* C14: at a point of DC with a density other than zero and zero momentum,
\* f1 is zero, TauM = 1/f1 is not finite, and when DC has returned at least
\* one of the 5 v slots and 15 dv slots of the point holds a value that is
\* not finite.
C14_NonFinitePropagates ==
  (kernel = "DC" /\ done) =>
    \A i \in DOMAIN pc :
      LET q(c) == in[iOf7[1] + i + c * Q]
      IN  (q(0) # R(0) /\ \A c \in 1..3 : q(c) = R(0))
          => /\ loc[i].f1 = R(0)
             /\ ~IsFinite(loc[i].TauM)
             /\ \/ \E c \in 0..4 : ~IsFinite(out[oOf7[1] + i + c * Q])
                \/ \E c \in 0..14 : ~IsFinite(out[oOf7[2] + i + c * Q])

\* C15: ICsDC, DC, SWICs, SWExplicit, SWImplicit and SWJacobian never return
\* a status other than 0, whatever the input, the context and Q >= 0, and
\* when they return every point 0..Q-1 has been processed: each has stored
\* every component of every output field.
C15_ReturnsZero ==
  kernel \in {"ICsDC", "DC", "SWICs", "SWExplicit", "SWImplicit", "SWJacobian"} =>
    /\ ret \in {-1, 0}
    /\ (call = 1 /\ ~done) => ret = -1
    /\ done =>
         /\ ret = 0
         /\ DOMAIN acc = 0..(Q - 1)
         /\ \A i \in 0..(Q - 1) :
              \A f \in 1..Len(NOut(kernel)) :
                \A c \in 0..(NOut(kernel)[f] - 1) :
                  <<"w", "out", f - 1, c, oOf7[f] + i + c * Q>> \in acc[i]

\* C15 is exercised: DC has returned 0 from a point whose density is zero,
\* where the velocity and with it v[4] is NaN.
C15_Witness ==
  /\ kernel = "DC" /\ done /\ ret = 0 /\ Q = 1
  /\ in[iOf7[1]] = R(0)
  /\ out[oOf7[1] + 4] = NaN

\* The components of output field f (0 = v, 1 = dv) that iteration i of this
\* invocation has stored to, at oOf7[f] + i + c*Q.
SWWritten(i, f) ==
  {e[4] : e \in {x \in acc[i] : x[1] = "w" /\ x[2] = "out" /\ x[3] = f
                                  /\ x[5] = oOf7[f + 1] + i + x[4] * Q}}

\* C16: once SWJacobian has processed point i it has stored v[i+c*Q] for
\* c in 0..2 and dv[i+(c+3*d)*Q] for c in 0..2, d in 0..1 and nothing
\* else, which are the slots SWExplicit and SWImplicit store; v[0..2],
\* dv(c=0,d=1) and dv(c=1,d=0) of a returned SWJacobian hold 0.
C16_JacobianWholeShape ==
  (kernel \in {"SWExplicit", "SWImplicit", "SWJacobian"}) =>
    \A i \in DOMAIN pc :
      pc[i] >= 1 =>
        /\ SWWritten(i, 0) = 0..2
        /\ SWWritten(i, 1) = {c + 3 * d : c \in 0..2, d \in 0..1}
        /\ Cardinality({e \in acc[i] : e[1] = "w"}) = 9
        /\ (kernel = "SWJacobian" /\ done) =>
             /\ \A c \in 0..2 : out[oOf7[1] + i + c * Q] = R(0)
             /\ out[oOf7[2] + i + (0 + 3 * 1) * Q] = R(0)
             /\ out[oOf7[2] + i + (1 + 3 * 0) * Q] = R(0)

\* C16 is exercised: SWJacobian has returned from two points, with a
\* nonzero value in dv(c=0,d=0) of the second.
C16_Witness ==
  /\ kernel = "SWJacobian" /\ done /\ Q = 2
  /\ out[oOf7[2] + 1] \notin {R(0), FillA(oOf7[2] + 1)}
  /\ out[oOf7[2] + 1 + 3 * Q] = R(0)

\* C17: DC takes wJ from qdata slot 0 and dXdx[r][c] from slot 1 + 3*r + c;
\* SWExplicit and SWImplicit take wJ from slot 0, and they and SWJacobian
\* take entry (r, c) of wBJ from slot 1 + 2*r + c; no iteration reads a
\* qdata slot above 9 in DC or above 4 in the shallow-water kernels.
C17_QdataSlotOrder ==
  \A i \in DOMAIN pc :
    pc[i] >= 1 =>
      /\ (kernel = "DC") =>
           /\ loc[i].wJ = in[iOf7[3] + i + 0 * Q]
           /\ \A r \in 0..2 : \A c \in 0..2 :
                loc[i].dXdx[r + 1][c + 1] = in[iOf7[3] + i + (1 + 3 * r + c) * Q]
           /\ \A e \in acc[i] :
                (e[1] = "r" /\ e[2] = "in" /\ e[3] = 2) =>
                  e[4] \in 0..9 /\ e[5] = iOf7[3] + i + e[4] * Q
      /\ (kernel \in {"SWExplicit", "SWImplicit"}) =>
           loc[i].wJ = in[iOf7[3] + i + 0 * Q]
      /\ (kernel \in {"SWExplicit", "SWImplicit", "SWJacobian"}) =>
           /\ \A r \in 0..1 : \A c \in 0..1 :
                loc[i].wBJ[2 * r + c + 1] = in[iOf7[3] + i + (1 + 2 * r + c) * Q]
           /\ \A e \in acc[i] :
                (e[1] = "r" /\ e[2] = "in" /\ e[3] = 2) =>
                  e[4] \in 0..4 /\ e[5] = iOf7[3] + i + e[4] * Q

\* C17 is exercised: DC has processed both of two points, the second with
\* an inverse Jacobian that is not symmetric and differs from wJ.
C17_Witness ==
  /\ kernel = "DC" /\ Q = 2 /\ pc[0] >= 1 /\ pc[1] >= 1
  /\ loc[1].dXdx[1][2] # loc[1].dXdx[2][1]
  /\ loc[1].dXdx[1][1] # loc[1].wJ

\* the declared index map of a packed symmetric 3x3 tensor
PackedSlot == << <<0, 1, 2>>, <<1, 3, 4>>, <<2, 4, 5>> >>

\* the entries in the order of their slots
PackedOrder == << <<1, 1>>, <<1, 2>>, <<1, 3>>, <<2, 2>>, <<2, 3>>, <<3, 3>> >>

\* C18: the index map M = {{0,1,2},{1,3,4},{2,4,5}} is symmetric and puts
\* the entries in the order (11,12,13,22,23,33); DC fills Fu in that order,
\* its Fe formula and its Fuviscidx stores take entry (j,k) of Fu from slot
\* M[j][k], and Diff3 takes entry (d,m) of the metric from slot M[d][m].
C18_SymmetricPacking ==
  /\ \A j \in 1..3 : \A k \in 1..3 :
       /\ PackedSlot[j][k] = PackedSlot[k][j]
       /\ PackedOrder[PackedSlot[j][k] + 1] =
            <<IF j < k THEN j ELSE k, IF j < k THEN k ELSE j>>
  /\ (kernel = "DC") =>
       \A i \in DOMAIN pc :
         LET L == loc[i]
             Fu(j, k) == L.Fu[PackedSlot[j][k] + 1]
         IN  /\ pc[i] >= 1 =>
                  \A j \in 1..3 :
                    /\ \A k \in 1..3 \ {j} :
                         Fu(j, k) = FMul(L.mu, FAdd(L.dudx[j][k], L.dudx[k][j]))
                    /\ \E a \in 1..3 \ {j} : \E b \in 1..3 \ {j, a} :
                         Fu(j, j) =
                           FMul(L.mu,
                                FAdd(FMul(L.dudx[j][j], FAdd(R(2), L.lambda)),
                                     FMul(L.lambda,
                                          FAdd(L.dudx[a][a], L.dudx[b][b]))))
                    /\ L.Fe[j] =
                         FAdd(Sum3(FMul(L.u[1], Fu(j, 1)), FMul(L.u[2], Fu(j, 2)),
                                   FMul(L.u[3], Fu(j, 3))),
                              FMul(L.k, L.gradT[j]))
             /\ pc[i] \in {3, 4} =>
                  \A j \in 1..3 : \A k \in 1..3 :
                    out[oOf7[2] + i + ((k - 1) * 5 + j) * Q] =
                      FSub(tmp[i][3 * (j - 1) + k],
                           FMul(L.wJ,
                                Sum3(FMul(Fu(j, 1), L.dXdx[k][1]),
                                     FMul(Fu(j, 2), L.dXdx[k][2]),
                                     FMul(Fu(j, 3), L.dXdx[k][3]))))
  /\ (kernel = "Diff3" /\ done) =>
       \A i \in DOMAIN pc : \A c \in 0..2 : \A d \in 0..2 :
         LET G(m) == in[iOf7[2] + i + Q * PackedSlot[d + 1][m + 1]]
             ug(m) == in[iOf7[1] + i + Q * (c + m * 3)]
         IN  out[oOf7[1] + i + Q * (c + d * 3)] =
               FAdd(FAdd(FMul(G(0), ug(0)), FMul(G(1), ug(1))), FMul(G(2), ug(2)))

\* C18 is exercised: DC has subtracted the viscous flux of a point whose Fu
\* has different values in the slots of 22 and 23 and a finite result.
C18_Witness ==
  /\ kernel = "DC" /\ Q = 1 /\ pc[0] = 3
  /\ loc[0].Fu[4] # loc[0].Fu[5]
  /\ IsRat(loc[0].Fu[4]) /\ IsRat(loc[0].Fu[5])
  /\ IsRat(out[oOf7[2] + (1 * 5 + 2) * Q]) /\ out[oOf7[2] + (1 * 5 + 2) * Q][2] # 0

\* the context positions the contract declares for kernel k
DeclaredCtx(k) ==
  CASE k = "ICsDC"        -> 0..14
    [] k = "DC"           -> 0..6
    [] k = "SWICs"        -> 0..2
    [] k \in {"SWExplicit", "SWImplicit", "SWJacobian"} -> {0}
    [] k = "f_build_mass" -> 0..1
    [] OTHER              -> {}

\* the periodicity flags the boundary test of point i of ICsDC evaluates:
\* flag n + 1 only when the test of face n is false
FlagsTested(i) ==
  IF ICsDCFace(0, i) THEN {12}
  ELSE IF ICsDCFace(1, i) THEN {12, 13} ELSE {12, 13, 14}

\* C19 as stated: an invocation that has returned has read exactly the
\* declared positions, 0..14 for ICsDC, 0..6 for DC, 0..2 for SWICs, 0 for
\* SWExplicit, SWImplicit and SWJacobian, 0..1 for f_build_mass and none for
\* the others, whatever the input and Q.
C19_ContextReadsAsStated == done => cacc = DeclaredCtx(kernel)

\* C19, amended: the positions read are at all times a prefix of the context
\* block within the declared positions; a returned DC, SWICs, SWExplicit,
\* SWImplicit, SWJacobian, f_apply_mass, SetupDiff3Rhs or Diff3 has read
\* exactly the declared positions, a returned f_build_mass has read 0..1 if
\* Q > 0 and nothing if Q = 0, and a returned ICsDC has read 0..11 and the
\* flags its points' boundary tests evaluate.
C19_ContextReads ==
  /\ cacc \subseteq DeclaredCtx(kernel)
  /\ \A n \in cacc : 0..n \subseteq cacc
  /\ done =>
       cacc = CASE kernel = "ICsDC" ->
                     0..11 \cup UNION {FlagsTested(i) : i \in DOMAIN pc}
                [] kernel = "f_build_mass" ->
                     IF Q > 0 THEN 0..1 ELSE {}
                [] OTHER -> DeclaredCtx(kernel)

\* C19 is exercised: ICsDC has returned from a point on a face of the
\* second coordinate, without reading the flag at position 14.
C19_Witness ==
  /\ kernel = "ICsDC" /\ done /\ Q = 1
  /\ cacc = 0..13

\* C20: no step of any invocation, first or repeated, changes an element of
\* the input buffer, of the input or output offset table or of the context
\* block, and every store of an iteration goes to a location of the output
\* buffer.
C20_InputsUnchanged ==
  /\ [][in' = in /\ iOf7' = iOf7 /\ oOf7' = oOf7 /\ ctx' = ctx]_vars
  /\ [](\A i \in DOMAIN acc :
          \A e \in acc[i] :
            e[1] = "w" => e[2] = "out" /\ e[5] \in DOMAIN out)

\* C20 is exercised: the second invocation of f_build_mass on two points has
\* returned after storing to the output buffer.
C20_Witness ==
  /\ kernel = "f_build_mass" /\ done /\ call = 2 /\ Q = 2
  /\ \A i \in DOMAIN acc : \E e \in acc[i] : e[1] = "w"
  /\ out[oOf7[1]] # FillA(oOf7[1])

----------------------------------------------------------------------------
(***************************************************************************)
(* The tiled loop of the OKL kernels and the plain sequential loop.        *)
(***************************************************************************)
MaxTile == 3

OKLKernels == {"f_build_mass", "f_apply_mass", "SetupDiff3Rhs", "Diff3"}

\* the inner loop of the tile starting at o: for (i = o; i < o + T; ++i)
\* if (i < Q), as the indices whose body runs
TileInner(o, T, q) ==
  SelectSeq([j \in 1..T |-> o + j - 1], LAMBDA i : i < q)

\* for (int i=0; i<Q; i++; @tile(T,@outer,@inner)): the outer loop
\* for (o = 0; o < Q; o += T) over the tiles
RECURSIVE TileOuter(_, _, _)
TileOuter(o, T, q) ==
  IF o < q THEN TileInner(o, T, q) \o TileOuter(o + T, T, q) ELSE <<>>

TileIndices(q, T) == TileOuter(0, T, q)

\* the stores of statement group p of iteration i of an OKL kernel, T what
\* the iteration has loaded, and the loads of the group
OKLStores(p, i, T) ==
  CASE kernel = "f_build_mass"  -> BuildMassStores(i)
    [] kernel = "f_apply_mass"  -> ApplyMassStores(i)
    [] kernel = "SetupDiff3Rhs" -> SetupDiff3RhsStores(p, i, T)
    [] kernel = "Diff3"         -> Diff3Stores(i)

OKLLoads(p) ==
  IF kernel = "SetupDiff3Rhs" THEN SetupDiff3RhsLoads(p) ELSE <<>>

\* mem after the statement groups p, p + 1, .. of iteration i, run one after
\* the other on mem
RECURSIVE SeqBody(_, _, _, _)
SeqBody(mem, i, p, T) ==
  IF p >= NPhase(kernel) THEN mem
  ELSE SeqBody(ApplyStores(mem, i, OKLStores(p, i, T)), i, p + 1,
               IF OKLLoads(p) = <<>> THEN T
               ELSE [n \in 1..Len(OKLLoads(p)) |->
                       Peek(mem, Addr(OTab(OKLLoads(p)[n][1]), i,
                                      OKLLoads(p)[n][2], Q))])

\* mem after for (int i = 0; i < Q; i++) body, from iteration i on
RECURSIVE SeqLoop(_, _)
SeqLoop(mem, i) ==
  IF i >= Q THEN mem ELSE SeqLoop(SeqBody(mem, i, 0, <<>>), i + 1)

\* C21: for an OKL kernel and every tile width T in 1..MaxTile the tiled
\* loop runs the body for each index of 0..Q-1 exactly once and for no
\* other index, and the output buffer a first invocation returns with,
\* its iterations run in any order, is the one the plain sequential loop
\* leaves.
C21_TileWidth ==
  (kernel \in OKLKernels) =>
    /\ \A T \in 1..MaxTile :
         /\ Len(TileIndices(Q, T)) = Q
         /\ {TileIndices(Q, T)[n] : n \in 1..Q} = 0..(Q - 1)
    /\ (done /\ call = 1) =>
         out = SeqLoop([a \in DOMAIN out |-> FillA(a)], 0)

\* C22: when DC has returned, each point i has stored to the 5 slots
\* v[c][i] and the 15 slots dv[d][c][i] and to no other, and v[0][i] =
\* v[1][i] = v[2][i] = 0, v[3][i] = -rho*g*wJ and v[4][i] = -rho*g*u[2]*wJ
\* with rho = q[0][i], u[2] = q[3][i]/rho, wJ = qdata[0][i], g = context[5].
C22_ShapeAndGravity ==
  (kernel = "DC" /\ done) =>
    \A i \in DOMAIN pc :
      LET rho == in[iOf7[1] + i]
          u2  == FDiv(in[iOf7[1] + i + 3 * Q], rho)
          wJ  == in[iOf7[3] + i]
          g   == ctx[6]
          W   == {<<e[3], e[4]>> : e \in {x \in acc[i] : x[1] = "w"}}
      IN  /\ W = {<<0, c>> : c \in 0..4}
                   \cup {<<1, d * 5 + c>> : d \in 0..2, c \in 0..4}
          /\ \A e \in acc[i] :
               e[1] = "w" => e[5] = oOf7[e[3] + 1] + i + e[4] * Q
          /\ \A c \in 0..2 : out[oOf7[1] + i + c * Q] = R(0)
          /\ out[oOf7[1] + i + 3 * Q] = FMul(FMul(FNeg(rho), g), wJ)
          /\ out[oOf7[1] + i + 4 * Q] = FMul(FMul(FMul(FNeg(rho), g), u2), wJ)

\* C22 is exercised: DC has returned from two points, the second with a
\* nonzero finite gravity source in v[3] and v[4].
C22_Witness ==
  /\ kernel = "DC" /\ done /\ Q = 2
  /\ out[oOf7[1] + 1 + 3 * Q] \notin {R(0), NaN}
  /\ out[oOf7[1] + 1 + 4 * Q] \notin {R(0), NaN}
  /\ out[oOf7[1] + 1 + 4 * Q] # out[oOf7[1] + 1 + 3 * Q]

Contract(a, dXdx, k) ==
  Sum3(FMul(a[1], dXdx[1][k]), FMul(a[2], dXdx[2][k]), FMul(a[3], dXdx[3][k]))

\* C24, the fields whose reference gradient is loaded from dq: with
\* drho[l] = dq[l][0][i], dU[j][l] = dq[l][j+1][i] and dE[l] = dq[l][4][i],
\* drhodx[k] = sum_l drho[l]*dXdx[l][k], dEdx[k] = sum_l dE[l]*dXdx[l][k]
\* and dUdx[j][k] = sum_l dU[j][l]*dXdx[l][k].
C24_LoadedGradients ==
  (kernel = "DC") =>
    \A i \in DOMAIN pc :
      pc[i] >= 1 =>
        LET L == loc[i]
            dq(l, c) == in[iOf7[2] + i + ((l - 1) * 5 + c) * Q]
        IN  \A k \in 1..3 :
              /\ L.drhodx[k] = Contract([l \in 1..3 |-> dq(l, 0)], L.dXdx, k)
              /\ L.dEdx[k] = Contract([l \in 1..3 |-> dq(l, 4)], L.dXdx, k)
              /\ \A j \in 1..3 :
                   L.dUdx[j][k] = Contract([l \in 1..3 |-> dq(l, j)], L.dXdx, k)

\* C24: in DC the four physical gradients are the same contraction of the
\* reference gradients with dXdx, over the first index of dXdx: those of
\* C24_LoadedGradients, and dudx[j][k] = sum_l du[j][l]*dXdx[l][k] with
\* du[j][l] = (dU[j][l] - drho[l]*u[j]) / rho.
C24_ChainRule ==
  /\ C24_LoadedGradients
  /\ (kernel = "DC") =>
       \A i \in DOMAIN pc :
         pc[i] >= 1 =>
           LET L == loc[i]
               du(j, l) == FDiv(FSub(L.dU[j][l], FMul(L.drho[l], L.u[j])), L.rho)
           IN  \A j \in 1..3 : \A k \in 1..3 :
                 L.dudx[j][k] = Contract([l \in 1..3 |-> du(j, l)], L.dXdx, k)

\* the sum of the elements of the sequence a, from the left
RECURSIVE SumSeq(_)
SumSeq(a) == IF a = <<>> THEN R(0) ELSE FAdd(Head(a), SumSeq(Tail(a)))

\* sum over a, b of u[a]*u[b]*g[a][b]
QuadraticForm(u, g) ==
  SumSeq([n \in 1..9 |->
            FMul(FMul(u[((n - 1) \div 3) + 1], u[((n - 1) % 3) + 1]),
                 g[((n - 1) \div 3) + 1][((n - 1) % 3) + 1])])

\* C25: at every point of DC the quantity under the square root of f1 is
\* sum over a, b of u[a]*u[b]*g[a][b] with g the matrix dXdxdXdxT =
\* dXdx * dXdx^T, f1 is rho times its square root and TauC is
\* Cc*f1 / (8 * (g[0][0] + g[1][1] + g[2][2])) with the same g and Cc = 1.
C25_ConvectiveSpeedMetric ==
  (kernel = "DC") =>
    \A i \in DOMAIN pc :
      pc[i] >= 1 =>
        LET L == loc[i]
            g == [a \in 1..3 |-> [b \in 1..3 |->
                    Sum3(FMul(L.dXdx[a][1], L.dXdx[b][1]),
                         FMul(L.dXdx[a][2], L.dXdx[b][2]),
                         FMul(L.dXdx[a][3], L.dXdx[b][3]))]]
        IN  /\ L.dXdxdXdxT = g
            /\ L.uiujgij = QuadraticForm(L.u, g)
            /\ L.f1 = FMul(L.rho, sqrt(L.uiujgij))
            /\ L.TauC = FDiv(FMul(R(1), L.f1),
                           FMul(R(8), Sum3(g[1][1], g[2][2], g[3][3])))

\* C26: when ICsDC has returned, at every point with a coordinate within
\* tol of 0 or of the domain length on an axis whose periodicity flag is 0
\* the momentum components q0[1], q0[2], q0[3] are exactly 0, and at every
\* point, on a face or not, q0[0] and q0[4] hold the density and the energy
\* of the formulas and coords[c] holds X[c].
C26_BoundaryMomentum ==
  (kernel = "ICsDC" /\ done) =>
    \A i \in DOMAIN pc :
      LET X(n) == in[iOf7[1] + i + n * Q]
          face(n) == /\ ctx[13 + n] = R(0)
                     /\ \/ FabsLessTol(FSub(X(n), R(0)))
                        \/ FabsLessTol(FSub(X(n), ctx[10 + n]))
          formula == ICsDCStores(i)
      IN  /\ (\E n \in 0..2 : face(n)) =>
               \A c \in 1..3 : out[oOf7[1] + i + c * Q] = R(0)
          /\ out[oOf7[1] + i + 0 * Q] = formula[1][3]
          /\ out[oOf7[1] + i + 4 * Q] = formula[5][3]
          /\ \A c \in 0..2 : out[oOf7[2] + i + c * Q] = X(c)

\* C26 is exercised: ICsDC has returned from a point on a face of a
\* non-periodic axis, with a nonzero energy.
C26_Witness ==
  /\ kernel = "ICsDC" /\ done /\ Q >= 1
  /\ \E n \in 0..2 :
       /\ ctx[13 + n] = R(0)
       /\ in[iOf7[1] + n * Q] \in {R(0), ctx[10 + n]}
  /\ out[oOf7[1] + 4 * Q] \notin {R(0), NaN}

\* C27: every iteration of SWExplicit, SWImplicit and SWJacobian reads the
\* state-gradient input at exactly the slots c + 3*d, c in 0..2, d in 0..1,
\* the slots at which it writes dv, so that every slot read lies in 0..5,
\* inside the 6*Q elements of the field.
C27_GradientLayout ==
  (kernel \in {"SWExplicit", "SWImplicit", "SWJacobian"}) =>
    \A i \in DOMAIN pc :
      pc[i] >= 1 =>
        LET rd == {e \in acc[i] : e[1] = "r" /\ e[2] = "in" /\ e[3] = 1}
            wr == {e \in acc[i] : e[1] = "w" /\ e[2] = "out" /\ e[3] = 1}
        IN  /\ {e[4] : e \in rd} = {c + 3 * d : c \in 0..2, d \in 0..1}
            /\ {e[4] : e \in rd} = {e[4] : e \in wr}
            /\ \A e \in rd :
                 /\ e[4] \in 0..5
                 /\ e[5] = iOf7[2] + i + e[4] * Q
                 /\ e[5] < iOf7[2] + 6 * Q

\* C28: a call of f_build_mass whose tag dim + 10*space_dim is not 11, 22 or
\* 33 stores nothing: every location of the output buffer keeps the value it
\* had before the call and the kernel, which is void, reports no status;
\* with the tag 11, 22 or 33
\* each iteration stores to exactly one location, out[oOf7[0] + i], and no
\* other location of the buffer changes.
C28_UnsupportedTagWritesNothing ==
  (kernel = "f_build_mass" /\ call = 1) =>
    LET tag == ctx[1] + 10 * ctx[2]
        W(i) == {e \in acc[i] : e[1] = "w"}
    IN  IF tag \in {11, 22, 33}
        THEN /\ \A i \in DOMAIN pc :
                  pc[i] = 1 =>
                    /\ Cardinality(W(i)) = 1
                    /\ \A e \in W(i) : e[2] = "out" /\ e[5] = oOf7[1] + i
             /\ \A a \in DOMAIN out :
                  out[a] # FillA(a) =>
                    \E i \in DOMAIN pc : pc[i] = 1 /\ a = oOf7[1] + i
        ELSE /\ \A a \in DOMAIN out : out[a] = FillA(a)
             /\ \A i \in DOMAIN pc : W(i) = {} /\ br[i] = {}
             /\ done => ret = -1

\* C28 is exercised: a call on two points with an unsupported tag has
\* returned.
C28_Witness ==
  /\ kernel = "f_build_mass" /\ call = 1 /\ done /\ Q = 2
  /\ ctx[1] + 10 * ctx[2] \notin {11, 22, 33}
  /\ \A i \in DOMAIN pc : pc[i] = 1

\* C29: the value f_build_mass stores in its 3x3 branch for point i equals
\* rho = w * (J11*A11 + J21*A12 + J31*A13) as SetupDiff3Rhs computes it from
\* the same Jacobian block read at the same component slots 0..8 and the same
\* weight, and also from the transposed block (slot 3*r + c read as slot
\* 3*c + r).
C29_DeterminantsAgree ==
  kernel = "f_build_mass" =>
    \A i \in DOMAIN pc :
      (pc[i] = 1 /\ 33 \in br[i]) =>
        LET J  == [c \in 0..8 |-> in[iOf7[1] + i + c * Q]]
            Jt == [c \in 0..8 |-> J[3 * (c % 3) + (c \div 3)]]
            w  == in[iOf7[2] + i]
        IN  /\ out[oOf7[1] + i] = Diff3RhoOf(J, w)
            /\ out[oOf7[1] + i] = Diff3RhoOf(Jt, w)

\* C29 is exercised: the 3x3 branch has stored a non-zero weight for a block
\* that is not symmetric.
C29_Witness ==
  /\ kernel = "f_build_mass" /\ done /\ Q = 1 /\ br[0] = {33}
  /\ out[oOf7[1]] # R(0)
  /\ in[iOf7[1] + 1] # in[iOf7[1] + 3]

\* C30: at every point SWExplicit has run, with u = (q[0], q[1]), f the
\* Coriolis parameter context[0] and du[c][d] the gradient of velocity
\* component c in direction d, slot c + 3*d of the state-gradient input, the
\* value-test output is v[0] = -(u[0]*du[0][0] + u[1]*du[0][1] + f*u[1]),
\* v[1] = -(u[0]*du[1][0] + u[1]*du[1][1] - f*u[0]), v[2] = 0 and the six
\* gradient-test slots are 0; the outputs are a function of u, du and f
\* alone, so the height, its gradient, qdata and the coordinates have no
\* effect.
C30_SWExplicitResult ==
  kernel = "SWExplicit" =>
    \A i \in DOMAIN pc :
      pc[i] = 1 =>
        LET u(c)     == in[iOf7[1] + i + c * Q]
            du(c, d) == in[iOf7[2] + i + (c + 3 * d) * Q]
            f        == ctx[1]
            v(c)     == out[oOf7[1] + i + c * Q]
            dv(s)    == out[oOf7[2] + i + s * Q]
        IN  /\ v(0) = FNeg(FAdd(FAdd(FMul(u(0), du(0, 0)), FMul(u(1), du(0, 1))),
                                FMul(f, u(1))))
            /\ v(1) = FNeg(FSub(FAdd(FMul(u(0), du(1, 0)), FMul(u(1), du(1, 1))),
                                FMul(f, u(0))))
            /\ v(2) = R(0)
            /\ \A s \in 0..5 : dv(s) = R(0)

=============================================================================
